---- MODULE Spec2Model ----
(***************************************************************************)
(* Model of the musikquiz job pipeline: the orchestrator                   *)
(* (app/api/process-songs/route.ts, queue variant and background variant), *)
(* the worker (app/api/process-job-worker/route.ts), the event stream      *)
(* (app/api/song-stream/route.ts), the resolver (app/utils/processing.ts)  *)
(* and the key/value store they share.                                     *)
(*                                                                         *)
(* Strings are sequences of one-character strings, so that split, parseInt *)
(* and the || 'N/A' defaults are computed and not assumed.                 *)
(***************************************************************************)
EXTENDS Integers, Sequences, FiniteSets, TLC

\* ------------------------------------------------------------------ bounds
\* Longest remainingSongs list of a request to the queue variant.
MaxSongs == 2
\* Longest remainingSongs list of a request to the background variant.
MaxBgSongs == 3
\* Timer ticks of one stream before the runtime's deadline (maxDuration) ends it.
MaxTicks == 2
\* Polls of one stream that may be waiting for the store at the same time.
MaxInFlight == 2
\* Outages of the key/value store during one job.
MaxOutages == 1
\* remainingSongs has at most MaxOutageSongs songs in the background deployment
\* with store outages.
MaxOutageSongs == 1

\* ----------------------------------------------------------------- strings
\* undefined / null: a one-element tuple no string of characters equals.
Undefined == <<"undefined">>
\* A status key or error field that is absent.
Nil == "nil"
NaN == -1

NA == <<"N", "/", "A">>

Digits == <<"0", "1", "2", "3", "4", "5", "6", "7", "8", "9">>

IsDigit(c) == \E i \in 1..10 : Digits[i] = c

DigitVal(c) == (CHOOSE i \in 1..10 : Digits[i] = c) - 1

\* String.prototype.split('-'): the pieces between the separators.
RECURSIVE SplitFrom(_, _, _)
SplitFrom(s, i, cur) ==
  IF i > Len(s) THEN <<cur>>
  ELSE IF s[i] = "-" THEN <<cur>> \o SplitFrom(s, i + 1, <<>>)
       ELSE SplitFrom(s, i + 1, Append(cur, s[i]))

Split(s) == SplitFrom(s, 1, <<>>)

\* parts[k] of a JavaScript array (0-based).
Part(parts, k) == IF k + 1 <= Len(parts) THEN parts[k + 1] ELSE Undefined

\* Truthiness of a string or undefined.
Truthy(x) == x # Undefined /\ x # <<>>

\* parseInt(s, 10): the value of the longest prefix of digits, NaN without one.
RECURSIVE ParseDigits(_, _, _)
ParseDigits(s, i, acc) ==
  IF i > Len(s) \/ ~IsDigit(s[i]) THEN acc
  ELSE ParseDigits(s, i + 1, acc * 10 + DigitVal(s[i]))

ParseInt(s) ==
  IF s = Undefined \/ s = <<>> \/ ~IsDigit(s[1]) THEN NaN ELSE ParseDigits(s, 1, 0)

\* Number.prototype.toString() of a non-negative integer.
RECURSIVE NumToString(_)
NumToString(n) ==
  IF n < 10 THEN <<Digits[n + 1]>>
  ELSE Append(NumToString(n \div 10), Digits[(n % 10) + 1])

\* String.prototype.toLowerCase() on the letters A-Z.
UpperCase == <<"A", "B", "C", "D", "E", "F", "G", "H", "I", "J", "K", "L", "M",
               "N", "O", "P", "Q", "R", "S", "T", "U", "V", "W", "X", "Y", "Z">>
LowerCase == <<"a", "b", "c", "d", "e", "f", "g", "h", "i", "j", "k", "l", "m",
               "n", "o", "p", "q", "r", "s", "t", "u", "v", "w", "x", "y", "z">>
toLowerCase(s) ==
  [i \in 1..Len(s) |->
     IF \E k \in 1..26 : UpperCase[k] = s[i]
     THEN LowerCase[CHOOSE k \in 1..26 : UpperCase[k] = s[i]]
     ELSE s[i]]

\* String.prototype.includes(sub).
Includes(s, sub) ==
  \E i \in 0..(Len(s) - Len(sub)) : SubSeq(s, i + 1, i + Len(sub)) = sub

\* String.prototype.split(sep) for a non-empty separator: every part.
RECURSIVE SplitOnFrom(_, _, _, _)
SplitOnFrom(s, sep, i, cur) ==
  IF i > Len(s) THEN <<cur>>
  ELSE IF i + Len(sep) - 1 <= Len(s) /\ SubSeq(s, i, i + Len(sep) - 1) = sep
       THEN <<cur>> \o SplitOnFrom(s, sep, i + Len(sep), <<>>)
       ELSE SplitOnFrom(s, sep, i + 1, Append(cur, s[i]))
SplitOn(s, sep) == SplitOnFrom(s, sep, 1, <<>>)

\* new Date().getFullYear()
CurrentYear == 2026

MonthNames == <<"January", "February", "March", "April", "May", "June",
                "July", "August", "September", "October", "November", "December">>

getMonthName(monthNum) ==
  IF ~Truthy(monthNum) THEN "N/A"
  ELSE LET num == ParseInt(monthNum)
       IN IF num = NaN \/ num < 1 \/ num > 12 THEN "N/A" ELSE MonthNames[num]

\* ---------------------------------------------------------------- resolver
fallbackToSpotify(song) ==
  LET parts == Split(song.currentReleaseDate)
  IN [title |-> song.title,
      currentReleaseDate |-> song.currentReleaseDate,
      spotifyUrl |-> song.spotifyUrl,
      releaseYear |-> IF Truthy(Part(parts, 0)) THEN Part(parts, 0) ELSE NA,
      releaseMonth |-> getMonthName(Part(parts, 1)),
      releaseDay |-> IF Truthy(Part(parts, 2)) THEN Part(parts, 2) ELSE NA,
      source |-> "spotify",
      sourceUrl |-> song.spotifyUrl,
      error |-> Nil]

\* What the catalog answers during one resolution. A call's outcome is "ok"
\* (2xx with a JSON body), "network" (fetch rejects), "status" (non-2xx) or
\* "json" (the body is not JSON).
\*   search, artistSearch, master, release   the outcome of each call
\*   hits, artistHits   searchData.results is non-empty (combined / artist-only)
\*   titled        every result has a title
\*   bestMatchScore  the highest calculateMatchScore among the results
\*   masterYear    masterData.year (0 = absent)
\*   formats       releaseData.formats: the descriptions of each format
\*   releasedIsString, released   releaseData.released (<<>> = absent)
\* calculateMatchScore (53-95): result has a title and a year (Undefined when
\* absent).
Separator == <<" ", "-", " ">>

calculateMatchScore(result, cleanedArtist, cleanedTitle) ==
  LET resultTitle == toLowerCase(result.title)
      parts == SplitOn(resultTitle, Separator)
  IN IF Len(parts) # 2 THEN 0
     ELSE LET artistPart == parts[1]
              titlePart == parts[2]
              artistScore == IF artistPart = cleanedArtist THEN 40
                             ELSE IF Includes(artistPart, cleanedArtist) THEN 20 ELSE 0
              titleScore == IF titlePart = cleanedTitle THEN 40
                            ELSE IF Includes(titlePart, cleanedTitle) THEN 20 ELSE 0
              year == ParseInt(result.year)
              yearScore == IF year # NaN /\ year >= 1900 /\ year <= CurrentYear
                           THEN 20 ELSE 0
          IN artistScore + titleScore + yearScore

\* The selection loop (144-152) with >= in place of >: the last of the
\* candidates with the highest score wins.
RECURSIVE bestMatchFromMut(_, _, _, _, _)
bestMatchFromMut(results, i, best, cleanedArtist, cleanedTitle) ==
  IF i > Len(results) THEN best
  ELSE LET score == calculateMatchScore(results[i], cleanedArtist, cleanedTitle)
       IN bestMatchFromMut(results, i + 1,
                           IF score >= best.score THEN [index |-> i, score |-> score]
                           ELSE best,
                           cleanedArtist, cleanedTitle)
bestMatchMut(results, cleanedArtist, cleanedTitle) ==
  bestMatchFromMut(results, 1, [index |-> 0, score |-> -1], cleanedArtist, cleanedTitle)

\* The selection loop (144-152): bestMatch (index 0 = null) and bestMatchScore.
RECURSIVE bestMatchFrom(_, _, _, _, _)
bestMatchFrom(results, i, best, cleanedArtist, cleanedTitle) ==
  IF i > Len(results) THEN best
  ELSE LET score == calculateMatchScore(results[i], cleanedArtist, cleanedTitle)
       IN bestMatchFrom(results, i + 1,
                        IF score > best.score THEN [index |-> i, score |-> score]
                        ELSE best,
                        cleanedArtist, cleanedTitle)
bestMatch(results, cleanedArtist, cleanedTitle) ==
  bestMatchFrom(results, 1, [index |-> 0, score |-> -1], cleanedArtist, cleanedTitle)

\* The promo filter (179-183) on formats[0].descriptions.
PromoKeywords == {<<"p", "r", "o", "m", "o">>,
                  <<"s", "a", "m", "p", "l", "e", "r">>,
                  <<"t", "e", "s", "t", " ", "p", "r", "e", "s", "s", "i", "n", "g">>,
                  <<"a", "d", "v", "a", "n", "c", "e">>,
                  <<"a", "c", "e", "t", "a", "t", "e">>}

\* The filter comparing the descriptions as they are, without toLowerCase.
IsPromoFormatMut(formats) ==
  /\ formats # <<>>
  /\ \E d \in 1..Len(formats[1]) : \E keyword \in PromoKeywords :
       Includes(formats[1][d], keyword)

IsPromoFormat(formats) ==
  /\ formats # <<>>
  /\ \E d \in 1..Len(formats[1]) : \E keyword \in PromoKeywords :
       Includes(toLowerCase(formats[1][d]), keyword)

CallOutcomes == {"ok", "network", "status", "json"}

\* An exception leaving a block.
Throw == [threw |-> TRUE]
Threw(x) == "threw" \in DOMAIN x

\* A response that is taken as a success although its status is not 2xx.
SucceededMut(outcome) == outcome \in {"ok", "status"}

\* response.ok held and response.json() returned (122-124, 133-134, 164-165,
\* 174-175); a rejected fetch, a non-2xx status and a non-JSON body all throw.
Succeeded(outcome) == outcome = "ok"

\* The retry search made whatever the primary search returned.
RetryNeededMut(cat) == TRUE

\* 127: !searchData.results?.length after the primary search.
RetryNeeded(cat) == ~cat.hits

Run(result, requests) == [result |-> result, requests |-> requests]

\* The try block of getDiscogsData (99-210): what it returns (a ProcessedSong,
\* or Throw) and the catalog requests it has issued, in order.
getDiscogsRun(song, cat) ==
  IF ~Succeeded(cat.search) THEN Run(Throw, <<"search">>)
  ELSE
    LET searches == IF RetryNeeded(cat) THEN <<"search", "artistSearch">>
                    ELSE <<"search">>
        results == IF RetryNeeded(cat) THEN cat.artistHits ELSE cat.hits
    IN IF RetryNeeded(cat) /\ ~Succeeded(cat.artistSearch) THEN Run(Throw, searches)
       ELSE IF ~results THEN Run(fallbackToSpotify(song), searches)
       ELSE IF ~cat.titled THEN Run(Throw, searches)
       ELSE IF cat.bestMatchScore < 80 THEN Run(fallbackToSpotify(song), searches)
       ELSE IF ~Succeeded(cat.master) THEN Run(Throw, Append(searches, "master"))
       ELSE
         LET requests == searches \o <<"master", "release">>
         IN IF ~Succeeded(cat.release) THEN Run(Throw, requests)
            ELSE IF IsPromoFormat(cat.formats) THEN Run(fallbackToSpotify(song), requests)
            ELSE IF Truthy(cat.released) /\ ~cat.releasedIsString
            THEN Run(Throw, requests)
            ELSE
              LET parts == Split(cat.released)
                  year0 == IF cat.masterYear = 0 THEN NA
                           ELSE NumToString(cat.masterYear)
                  hasRel == Truthy(cat.released)
                  year == IF hasRel /\ Truthy(Part(parts, 0)) THEN Part(parts, 0)
                          ELSE year0
                  month == IF hasRel /\ Truthy(Part(parts, 1))
                           THEN getMonthName(Part(parts, 1)) ELSE "N/A"
                  day == IF hasRel /\ Truthy(Part(parts, 2)) THEN Part(parts, 2) ELSE NA
                  y == ParseInt(year)
              IN IF y = NaN \/ y < 1900 \/ y > CurrentYear
                 THEN Run(fallbackToSpotify(song), requests)
                 ELSE Run([title |-> song.title,
                           currentReleaseDate |-> song.currentReleaseDate,
                           spotifyUrl |-> song.spotifyUrl,
                           releaseYear |-> year,
                           releaseMonth |-> month,
                           releaseDay |-> day,
                           source |-> "discogs",
                           sourceUrl |-> "discogs:master",
                           error |-> Nil],
                          requests)

\* The try block of getDiscogsData (99-210): a ProcessedSong, or Throw.
getDiscogsTry(song, cat) == getDiscogsRun(song, cat).result

\* The catch of getDiscogsData (211-214) turns every exception into the fallback.
getDiscogsData(song, cat) ==
  LET r == getDiscogsTry(song, cat)
  IN IF Threw(r) THEN fallbackToSpotify(song) ELSE r

\* getReleaseData without its catch (222-231).
getReleaseTry(song, cat) ==
  LET processedSong == getDiscogsData(song, cat)
  IN IF Threw(processedSong) THEN Throw
     ELSE IF ~Truthy(processedSong.releaseYear) \/ processedSong.releaseYear = NA
     THEN fallbackToSpotify(song)
     ELSE processedSong

\* getReleaseData and getDiscogsData without their catch blocks.
getReleaseDataMut(song, cat) == getDiscogsTry(song, cat)

getReleaseData(song, cat) ==
  LET r == getReleaseTry(song, cat)
  IN IF Threw(r) THEN fallbackToSpotify(song) ELSE r

\* ------------------------------------------------------------------ inputs
\* Songs a request may carry (title, currentReleaseDate).
SongA == [title |-> "a", spotifyUrl |-> "spotify:a",
          currentReleaseDate |-> <<"1", "9", "7", "1", "-", "0", "3", "-", "0", "5">>]
SongB == [title |-> "b", spotifyUrl |-> "spotify:b",
          currentReleaseDate |-> <<"1", "9", "7", "1">>]
SongC == [title |-> "c", spotifyUrl |-> "spotify:c",
          currentReleaseDate |-> <<"1", "8", "5", "0", "-", "1", "3">>]
SongD == [title |-> "d", spotifyUrl |-> "spotify:d", currentReleaseDate |-> <<>>]

Songs == {SongA, SongB, SongC, SongD}

\* The catalog is down (every search answers non-2xx).
CatDown == [search |-> "status", hits |-> FALSE, artistSearch |-> "status",
            artistHits |-> FALSE, titled |-> TRUE, bestMatchScore |-> -1,
            master |-> "status", release |-> "status", masterYear |-> 0,
            formats |-> <<>>, releasedIsString |-> TRUE, released |-> <<>>]
\* The catalog has a master scoring 100 whose main release is dated 1984-07.
CatHit == [search |-> "ok", hits |-> TRUE, artistSearch |-> "ok",
           artistHits |-> TRUE, titled |-> TRUE, bestMatchScore |-> 100,
           master |-> "ok", release |-> "ok", masterYear |-> 1984,
           formats |-> <<>>, releasedIsString |-> TRUE,
           released |-> <<"1", "9", "8", "4", "-", "0", "7">>]

\* The catalog knows song "a" only, and any lookup may find the catalog down.
CatalogAnswers(song) == IF song = SongA THEN {CatDown, CatHit} ELSE {CatDown}

\* remainingSongs: the lists of distinct songs of length at most MaxSongs.
RECURSIVE SongLists(_)
SongLists(n) ==
  IF n = 0 THEN {<<>>}
  ELSE LET shorter == SongLists(n - 1)
       IN shorter \cup {Append(l, x) : l \in {m \in shorter : Len(m) = n - 1},
                                         x \in Songs}

NoRepeat(l) == \A i, j \in 1..Len(l) : i # j => l[i] # l[j]

Payloads(n) == {l \in SongLists(n) : NoRepeat(l)}

\* ------------------------------------------------------------------- state
\* A call of the key/value store is served while the store is reachable and
\* throws while it is not: the actions that model a call take that as `up`.
VARIABLES
  storeUp,        \* the key/value store is reachable
  outages,        \* how many times the store has become unreachable
  jobStatus,      \* key job:<jobId>:status
  jobResults,     \* key job:<jobId>:results (list, head first)
  kvStatus,       \* key <jobId>:status
  kvResults,      \* key <jobId>:results (list, head first)
  kvYears,        \* key <jobId>:years (Nil or a set of year strings)
  postPc,         \* position of POST /api/process-songs
  firstSong,      \* request body
  remainingSongs, \* request body
  processedFirstSong,
  postResp,       \* HTTP status of the response, 0 before it is sent
  queueMsg,       \* a published job the queue has not delivered yet
  wPc, wI, wCur, wResp,          \* worker: position, loop index, song in hand, response
  bPc, bI, bCur, processedYears, \* background task: position, index, song, local Set
  appended,       \* history: the entries appended to a results list, in order
  sPhase,         \* stream: "none" (not requested) | "open" | "ended" (deadline)
  intervalOn,     \* the setInterval timer is armed (intervalId not cleared)
  ticks,          \* timer ticks so far
  lastSentIndex,
  polls,          \* the checkUpdates calls in progress, oldest first
  cancelled,      \* the client has disconnected (the stream is cancelled)
  queued,         \* chunks in the controller's queue, not yet read by the client
  pendingRead,    \* the client has a read() waiting for the next chunk
  delPending,     \* redis.del requests sent by close() and not served yet
  events,         \* the events enqueued on the stream, in order
  statusAtOpen,   \* history: job:<jobId>:status when the stream was opened
  postBody,       \* what the body of the POST request was ("none" before it)
  workerBody,     \* what the body of the worker's request was ("none" before it)
  rPc, rSong, rCatalog, rResult, \* one call of getReleaseData: position, inputs, result
  rRequests,      \* history: the catalog requests the call issued, in order
  rCaught,        \* history: an exception was raised and caught during the call
  now,            \* wall clock, ms
  gPc,            \* per concurrent getDiscogsData call: its position
  gWake,          \* per concurrent call: when its setTimeout fires
  gCalls,         \* per concurrent call: catalog requests issued so far
  requestStarts,  \* the start times of the catalog requests issued, in order
  mPc, mResults, mScores, mBest, mBestScore, mCalls, \* candidate selection of one resolution
  sampPc, playlist, sampRnd, fetchedTracks, offset, candidates, sentFirst,
  sentRemaining,  \* the sampler: position, inputs, tracks fetched, what it sends
  shuffleI,       \* the sampler: the index i of shuffleArray's loop
  apiItems,       \* the sampler: the API's track pages carry an items field
  pagesRequested, \* history: the number of track pages the sampler has requested
  lastLimit,      \* history: the limit of the last page requested
  tokenData,      \* getAccessToken: a token is cached
  tokenExpiration, \* getAccessToken: when the cached token expires, ms
  tokenNow,       \* Date.now() for getAccessToken, ms
  tokenCall,      \* history: how the last call of getAccessToken ended
  streamGen,      \* 1 for the client's first stream on the job, 2 after it reconnected
  firstEvents,    \* history: the events of the first stream
  doneAtReopen    \* history: the job had finished when the second stream opened

storeVars == <<jobStatus, jobResults, kvStatus, kvResults, kvYears>>
postVars == <<postPc, firstSong, remainingSongs, processedFirstSong, postResp, queueMsg>>
workerVars == <<wPc, wI, wCur, wResp>>
bgVars == <<bPc, bI, bCur, processedYears>>
streamVars == <<sPhase, intervalOn, ticks, lastSentIndex, polls, cancelled, queued,
                pendingRead, delPending, events, statusAtOpen>>
requestVars == <<postBody, workerBody>>
resolverVars == <<rPc, rSong, rCatalog, rResult, rRequests, rCaught>>
gateVars == <<now, gPc, gWake, gCalls, requestStarts>>
matchVars == <<mPc, mResults, mScores, mBest, mBestScore, mCalls>>
samplerVars == <<sampPc, playlist, sampRnd, fetchedTracks, offset, candidates, sentFirst,
                 sentRemaining, shuffleI, apiItems, pagesRequested, lastLimit>>
tokenVars == <<tokenData, tokenExpiration, tokenNow, tokenCall>>
reconnectVars == <<streamGen, firstEvents, doneAtReopen>>
auxVars == <<matchVars, samplerVars, reconnectVars, tokenVars>>
vars == <<storeUp, outages, storeVars, postVars, workerVars, bgVars, appended, streamVars,
          requestVars, resolverVars, gateVars, auxVars>>

\* --------------------------------------------------------- the environment
\* The store becomes unreachable.
StoreDown ==
  /\ storeUp
  /\ outages < MaxOutages
  /\ storeUp' = FALSE
  /\ outages' = outages + 1
  /\ UNCHANGED <<auxVars, requestVars, resolverVars, gateVars, storeVars, postVars, workerVars, bgVars, appended, streamVars>>

\* The store is reachable again.
StoreBack ==
  /\ ~storeUp
  /\ storeUp' = TRUE
  /\ UNCHANGED <<auxVars, requestVars, resolverVars, gateVars, outages, storeVars, postVars, workerVars, bgVars, appended,
                 streamVars>>

Store == StoreDown \/ StoreBack

NoSong == [title |-> "", spotifyUrl |-> "", currentReleaseDate |-> <<>>]

\* ------------------------------------ POST /api/process-songs (both variants)
\* The request is parsed and the first song's resolution is started.
PostReceive(n) ==
  /\ postPc = "idle"
  /\ \E first \in Songs, rest \in Payloads(n) :
       /\ \A i \in 1..Len(rest) : rest[i] # first
       /\ firstSong' = first
       /\ remainingSongs' = rest
  /\ postPc' = "resolve"
  /\ postBody' = "ok"
  /\ UNCHANGED <<auxVars, workerBody, resolverVars, gateVars, streamVars, storeUp, outages, storeVars, processedFirstSong, postResp, queueMsg,
                 workerVars, bgVars, appended>>

\* ------------------------------------------ POST, queue variant (337-409)
\* getReleaseData(firstSong) returns; the jobId is drawn and the write of
\* 'queued' is sent.
PostResolved ==
  /\ postPc = "resolve"
  /\ \E cat \in CatalogAnswers(firstSong) :
       processedFirstSong' = getReleaseData(firstSong, cat)
  /\ postPc' = "setQueued"
  /\ UNCHANGED <<auxVars, requestVars, resolverVars, gateVars, streamVars, storeUp, outages, storeVars, firstSong, remainingSongs, postResp,
                 queueMsg, workerVars, bgVars, appended>>

\* redis.set(statusKey, 'queued'); a failure is logged and swallowed.
PostSetQueued(up) ==
  /\ postPc = "setQueued"
  /\ jobStatus' = IF up THEN "queued" ELSE jobStatus
  /\ postPc' = IF Len(remainingSongs) > 0 THEN "publish" ELSE "setComplete"
  /\ UNCHANGED <<auxVars, requestVars, resolverVars, gateVars, streamVars, storeUp, outages, jobResults, kvStatus, kvResults, kvYears, firstSong,
                 remainingSongs, processedFirstSong, postResp, queueMsg,
                 workerVars, bgVars, appended>>

\* qstashClient.publishJSON succeeds: the job is in the queue, 200 is returned.
PostPublish ==
  /\ postPc = "publish"
  /\ queueMsg' = TRUE
  /\ postResp' = 200
  /\ postPc' = "done"
  /\ UNCHANGED <<auxVars, requestVars, resolverVars, gateVars, streamVars, storeUp, outages, storeVars, firstSong, remainingSongs,
                 processedFirstSong, workerVars, bgVars, appended>>

\* publishJSON throws although the queue has accepted the job.
PostPublishFailsMut ==
  /\ postPc = "publish"
  /\ queueMsg' = TRUE
  /\ postPc' = "setPublishFailed"
  /\ UNCHANGED <<auxVars, requestVars, resolverVars, gateVars, streamVars, storeUp, outages,
                 storeVars, firstSong, remainingSongs, processedFirstSong, postResp,
                 workerVars, bgVars, appended>>

\* qstashClient.publishJSON throws: nothing is enqueued.
PostPublishFails ==
  /\ postPc = "publish"
  /\ postPc' = "setPublishFailed"
  /\ UNCHANGED <<auxVars, requestVars, resolverVars, gateVars, streamVars, storeUp, outages, storeVars, firstSong, remainingSongs,
                 processedFirstSong, postResp, queueMsg, workerVars, bgVars, appended>>

\* The write setPublishFailed / setComplete of the orchestrator: when it throws,
\* the outer catch answers 500.
PostFinalWrite(status, up) ==
  /\ IF up
     THEN jobStatus' = status /\ postResp' = 200
     ELSE jobStatus' = jobStatus /\ postResp' = 500
  /\ postPc' = "done"
  /\ UNCHANGED <<auxVars, requestVars, resolverVars, gateVars, streamVars, storeUp, outages, jobResults, kvStatus, kvResults, kvYears, firstSong,
                 remainingSongs, processedFirstSong, queueMsg, workerVars, bgVars,
                 appended>>

PostSetPublishFailed(up) ==
  postPc = "setPublishFailed" /\ PostFinalWrite("publish_failed", up)

PostSetComplete(up) == postPc = "setComplete" /\ PostFinalWrite("complete", up)

\* --------------------------------- worker: process-job-worker/route.ts (24-96)
\* Where the loop goes after song wI: the next song, or the final status write.
WorkerAfterSong(i) == IF i < Len(remainingSongs) THEN "resolve" ELSE "setComplete"

\* The queue delivers the job; the body is parsed and the write of
\* 'processing' is sent.
WorkerInvoke ==
  /\ queueMsg
  /\ wPc = "idle"
  /\ queueMsg' = FALSE
  /\ wPc' = "setProcessing"
  /\ workerBody' = "ok"
  /\ UNCHANGED <<auxVars, postBody, resolverVars, gateVars, streamVars, storeUp, outages, storeVars, postPc, firstSong, remainingSongs,
                 processedFirstSong, postResp, wI, wCur, wResp, bgVars, appended>>

\* redis.set(statusKey, 'processing'); a failure is logged and swallowed.
WorkerSetProcessing(up) ==
  /\ wPc = "setProcessing"
  /\ jobStatus' = IF up THEN "processing" ELSE jobStatus
  /\ wI' = 1
  /\ wPc' = WorkerAfterSong(0)
  /\ UNCHANGED <<auxVars, requestVars, resolverVars, gateVars, streamVars, storeUp, outages, jobResults, kvStatus, kvResults, kvYears, postVars,
                 wCur, wResp, bgVars, appended>>

\* getReleaseData(song) returns; the rpush of the result is sent.
WorkerResolve ==
  /\ wPc = "resolve"
  /\ \E cat \in CatalogAnswers(remainingSongs[wI]) :
       wCur' = getReleaseData(remainingSongs[wI], cat)
  /\ wPc' = "rpush"
  /\ UNCHANGED <<auxVars, requestVars, resolverVars, gateVars, streamVars, storeUp, outages, storeVars, postVars, wI, wResp, bgVars, appended>>

\* redis.rpush(resultsKey, processedSong) is served; when it throws, the song's
\* catch builds the error result and sends its rpush.
WorkerRpush(up) ==
  /\ wPc = "rpush"
  /\ IF up
     THEN /\ jobResults' = Append(jobResults, wCur)
          /\ appended' = Append(appended, wCur)
          /\ wI' = wI + 1
          /\ wPc' = WorkerAfterSong(wI)
          /\ wCur' = wCur
     ELSE /\ wCur' = [fallbackToSpotify(remainingSongs[wI]) EXCEPT !.error = "Failed to process"]
          /\ wPc' = "rpushError"
          /\ UNCHANGED <<jobResults, appended, wI>>
  /\ UNCHANGED <<auxVars, requestVars, resolverVars, gateVars, streamVars, storeUp, outages, jobStatus, kvStatus, kvResults, kvYears, postVars,
                 wResp, bgVars>>

\* A song's catch that swallows a failure of its own rpush and goes on to the
\* next song.
WorkerRpushErrorMut(up) ==
  /\ wPc = "rpushError"
  /\ jobResults' = IF up THEN Append(jobResults, wCur) ELSE jobResults
  /\ appended' = IF up THEN Append(appended, wCur) ELSE appended
  /\ wI' = wI + 1
  /\ wPc' = WorkerAfterSong(wI)
  /\ UNCHANGED <<auxVars, requestVars, resolverVars, gateVars, streamVars, storeUp, outages,
                 jobStatus, kvStatus, kvResults, kvYears, postVars, wCur, wResp, bgVars>>

\* redis.rpush(resultsKey, errorResult) inside the song's catch; when it throws,
\* the handler's catch takes over.
WorkerRpushError(up) ==
  /\ wPc = "rpushError"
  /\ IF up
     THEN /\ jobResults' = Append(jobResults, wCur)
          /\ appended' = Append(appended, wCur)
          /\ wI' = wI + 1
          /\ wPc' = WorkerAfterSong(wI)
     ELSE /\ wPc' = "setWorkerFailed"
          /\ UNCHANGED <<jobResults, appended, wI>>
  /\ UNCHANGED <<auxVars, requestVars, resolverVars, gateVars, streamVars, storeUp, outages, jobStatus, kvStatus, kvResults, kvYears, postVars,
                 wCur, wResp, bgVars>>

\* redis.set(statusKey, 'complete'), failure swallowed; then 200 {success: true}.
WorkerSetComplete(up) ==
  /\ wPc = "setComplete"
  /\ jobStatus' = IF up THEN "complete" ELSE jobStatus
  /\ wResp' = 200
  /\ wPc' = "done"
  /\ UNCHANGED <<auxVars, requestVars, resolverVars, gateVars, streamVars, storeUp, outages, jobResults, kvStatus, kvResults, kvYears, postVars,
                 wI, wCur, bgVars, appended>>

\* A catch that writes the status the stream waits for ('failed') in place of
\* 'worker_failed'.
WorkerSetFailedMut(up) ==
  /\ wPc = "setWorkerFailed"
  /\ jobStatus' = IF up THEN "failed" ELSE jobStatus
  /\ wResp' = 500
  /\ wPc' = "done"
  /\ UNCHANGED <<auxVars, requestVars, resolverVars, gateVars, streamVars, storeUp, outages, jobResults, kvStatus, kvResults, kvYears, postVars,
                 wI, wCur, bgVars, appended>>

\* The handler's catch: redis.set(statusKey, 'worker_failed'), failure swallowed;
\* then 500.
WorkerSetFailed(up) ==
  /\ wPc = "setWorkerFailed"
  /\ jobStatus' = IF up THEN "worker_failed" ELSE jobStatus
  /\ wResp' = 500
  /\ wPc' = "done"
  /\ UNCHANGED <<auxVars, requestVars, resolverVars, gateVars, streamVars, storeUp, outages, jobResults, kvStatus, kvResults, kvYears, postVars,
                 wI, wCur, bgVars, appended>>

\* ---------------------------------- POST, background variant (750-859)
\* Where the loop goes after song i: the next song, or the final status write.
BgAfterSong(i) == IF i < Len(remainingSongs) THEN "resolve" ELSE "setComplete"

\* getReleaseData(firstSong) returns; the jobId is drawn, the background task is
\* started without awaiting it (it runs up to its first store call) and 200 is
\* returned.
BgPostResolved ==
  /\ postPc = "resolve"
  /\ \E cat \in CatalogAnswers(firstSong) :
       processedFirstSong' = getReleaseData(firstSong, cat)
  /\ postResp' = 200
  /\ postPc' = "done"
  /\ bPc' = "initYears"
  /\ UNCHANGED <<auxVars, requestVars, resolverVars, gateVars, streamVars, storeUp, outages, storeVars, firstSong, remainingSongs, queueMsg,
                 workerVars, bI, bCur, processedYears, appended>>

\* redis.set(yearsKey, [initialReleaseYear]); a throw goes to the task's catch.
BgInitYears(up) ==
  /\ bPc = "initYears"
  /\ IF up
     THEN kvYears' = {processedFirstSong.releaseYear} /\ bPc' = "initStatus"
     ELSE kvYears' = kvYears /\ bPc' = "setFailed"
  /\ UNCHANGED <<auxVars, requestVars, resolverVars, gateVars, streamVars, storeUp, outages, jobStatus, jobResults, kvStatus, kvResults, postVars,
                 workerVars, bI, bCur, processedYears, appended>>

\* redis.set(statusKey, 'processing')
BgInitStatus(up) ==
  /\ bPc = "initStatus"
  /\ IF up
     THEN kvStatus' = "processing" /\ bPc' = "delResults"
     ELSE kvStatus' = kvStatus /\ bPc' = "setFailed"
  /\ UNCHANGED <<auxVars, requestVars, resolverVars, gateVars, streamVars, storeUp, outages, jobStatus, jobResults, kvResults, kvYears, postVars,
                 workerVars, bI, bCur, processedYears, appended>>

\* redis.del(resultsKey); then processedYears = new Set([initialReleaseYear]).
BgDelResults(up) ==
  /\ bPc = "delResults"
  /\ IF up
     THEN /\ kvResults' = <<>>
          /\ processedYears' = {processedFirstSong.releaseYear}
          /\ bI' = 1
          /\ bPc' = BgAfterSong(0)
     ELSE /\ bPc' = "setFailed"
          /\ UNCHANGED <<kvResults, processedYears, bI>>
  /\ UNCHANGED <<auxVars, requestVars, resolverVars, gateVars, streamVars, storeUp, outages, jobStatus, jobResults, kvStatus, kvYears, postVars,
                 workerVars, bCur, appended>>

\* getReleaseData(song) returns. A song without a year, or with a year already
\* in processedYears, is skipped; otherwise the year is added to processedYears
\* and the lpush is sent.
BgResolve ==
  /\ bPc = "resolve"
  /\ \E cat \in CatalogAnswers(remainingSongs[bI]) :
       LET processedSong == getReleaseData(remainingSongs[bI], cat)
           keep == /\ Truthy(processedSong.releaseYear)
                   /\ processedSong.releaseYear # NA
                   /\ processedSong.releaseYear \notin processedYears
       IN IF keep
          THEN /\ processedYears' = processedYears \cup {processedSong.releaseYear}
               /\ bCur' = processedSong
               /\ bPc' = "lpush"
               /\ bI' = bI
          ELSE /\ bI' = bI + 1
               /\ bPc' = BgAfterSong(bI)
               /\ UNCHANGED <<processedYears, bCur>>
  /\ UNCHANGED <<auxVars, requestVars, resolverVars, gateVars, streamVars, storeUp, outages, storeVars, postVars, workerVars, appended>>

\* redis.lpush(resultsKey, processedSong); a throw is caught per song and the
\* loop goes on with the next song.
BgLpush(up) ==
  /\ bPc = "lpush"
  /\ IF up
     THEN /\ kvResults' = <<bCur>> \o kvResults
          /\ appended' = Append(appended, bCur)
          /\ bPc' = "setYears"
          /\ bI' = bI
     ELSE /\ bI' = bI + 1
          /\ bPc' = BgAfterSong(bI)
          /\ UNCHANGED <<kvResults, appended>>
  /\ UNCHANGED <<auxVars, requestVars, resolverVars, gateVars, streamVars, storeUp, outages, jobStatus, jobResults, kvStatus, kvYears, postVars,
                 workerVars, bCur, processedYears>>

\* redis.set(yearsKey, Array.from(processedYears)); a throw is caught per song.
BgSetYears(up) ==
  /\ bPc = "setYears"
  /\ kvYears' = IF up THEN processedYears ELSE kvYears
  /\ bI' = bI + 1
  /\ bPc' = BgAfterSong(bI)
  /\ UNCHANGED <<auxVars, requestVars, resolverVars, gateVars, streamVars, storeUp, outages, jobStatus, jobResults, kvStatus, kvResults, postVars,
                 workerVars, bCur, processedYears, appended>>

\* redis.set(statusKey, 'complete'); a throw goes to the task's catch.
BgSetComplete(up) ==
  /\ bPc = "setComplete"
  /\ IF up
     THEN kvStatus' = "complete" /\ bPc' = "done"
     ELSE kvStatus' = kvStatus /\ bPc' = "setFailed"
  /\ UNCHANGED <<auxVars, requestVars, resolverVars, gateVars, streamVars, storeUp, outages, jobStatus, jobResults, kvResults, kvYears, postVars,
                 workerVars, bI, bCur, processedYears, appended>>

\* The task's catch: redis.set(statusKey, 'failed'); a throw here rejects the
\* task's promise, which POST's .catch handles.
BgSetFailed(up) ==
  /\ bPc = "setFailed"
  /\ IF up
     THEN kvStatus' = "failed" /\ bPc' = "done"
     ELSE kvStatus' = kvStatus /\ bPc' = "setInitFailed"
  /\ UNCHANGED <<auxVars, requestVars, resolverVars, gateVars, streamVars, storeUp, outages, jobStatus, jobResults, kvResults, kvYears, postVars,
                 workerVars, bI, bCur, processedYears, appended>>

\* POST's .catch: redis.set(statusKey, 'init_failed').catch()
BgSetInitFailed(up) ==
  /\ bPc = "setInitFailed"
  /\ kvStatus' = IF up THEN "init_failed" ELSE kvStatus
  /\ bPc' = "done"
  /\ UNCHANGED <<auxVars, requestVars, resolverVars, gateVars, streamVars, storeUp, outages, jobStatus, jobResults, kvResults, kvYears, postVars,
                 workerVars, bI, bCur, processedYears, appended>>

\* ------------------------------------- event stream: song-stream/route.ts
\* ReadableStream's default queuing strategy (no strategy is passed).
HighWaterMark == 1

\* controller.desiredSize: 0 once the stream is cancelled, else the room left.
desiredSize(o) == IF cancelled THEN 0 ELSE HighWaterMark - o.queued

\* sendEvent (34-47) on the output state o = [events, queued, pendingRead,
\* intervalOn]: the chunk is enqueued (handed to a waiting read, or queued) when
\* desiredSize > 0; otherwise it is dropped and the interval is cleared.
sendEvent(o, event, data) ==
  IF desiredSize(o) > 0
  THEN IF o.pendingRead
       THEN [o EXCEPT !.events = Append(@, [event |-> event, data |-> data]),
                      !.pendingRead = FALSE]
       ELSE [o EXCEPT !.events = Append(@, [event |-> event, data |-> data]),
                      !.queued = @ + 1]
  ELSE [o EXCEPT !.intervalOn = FALSE]

\* newResults.forEach(song => sendEvent('song', JSON.stringify(song)))
RECURSIVE sendSongs(_, _)
sendSongs(o, newResults) ==
  IF newResults = <<>> THEN o
  ELSE sendSongs(sendEvent(o, "song", Head(newResults)), Tail(newResults))

Output == [events |-> events, queued |-> queued, pendingRead |-> pendingRead,
           intervalOn |-> intervalOn]

SetOutput(o) ==
  /\ events' = o.events
  /\ queued' = o.queued
  /\ pendingRead' = o.pendingRead
  /\ intervalOn' = o.intervalOn

RECURSIVE Reverse(_)
Reverse(l) == IF l = <<>> THEN <<>> ELSE Append(Reverse(Tail(l)), Head(l))

\* The filter of line 58: objects that have a title.
IsSong(e) == "title" \in DOMAIN e

RemoveAt(l, i) == SubSeq(l, 1, i - 1) \o SubSeq(l, i + 1, Len(l))

\* GET /api/song-stream?jobId=...: the client knows the jobId from POST's 200.
StreamOpen ==
  /\ postResp = 200
  /\ sPhase = "none"
  /\ sPhase' = "open"
  /\ intervalOn' = TRUE
  /\ statusAtOpen' = jobStatus
  /\ UNCHANGED <<auxVars, requestVars, resolverVars, gateVars, storeUp, outages, storeVars, postVars, workerVars, bgVars, appended,
                 ticks, lastSentIndex, polls, cancelled, queued, pendingRead,
                 delPending, events>>

\* setInterval fires: a new checkUpdates starts and sends its lrange, whether or
\* not the previous call has returned.
Tick ==
  /\ sPhase = "open"
  /\ intervalOn
  /\ ticks < MaxTicks
  /\ Len(polls) < MaxInFlight
  /\ ticks' = ticks + 1
  /\ polls' = Append(polls, [stage |-> "lrange", results |-> <<>>, len |-> 0,
                             status |-> Nil])
  /\ UNCHANGED <<auxVars, requestVars, resolverVars, gateVars, storeUp, outages, storeVars, postVars, workerVars, bgVars, appended,
                 sPhase, intervalOn, lastSentIndex, cancelled, queued, pendingRead,
                 delPending, events, statusAtOpen>>

\* The store serves redis.lrange(resultsKey, 0, -1) of poll i, or fails.
StoreServeLrange(i, up) ==
  /\ polls[i].stage = "lrange"
  /\ polls' = [polls EXCEPT ![i] =
                 IF up THEN [@ EXCEPT !.stage = "gotResults", !.results = kvResults]
                 ELSE [@ EXCEPT !.stage = "failed"]]
  /\ UNCHANGED <<auxVars, requestVars, resolverVars, gateVars, storeUp, outages, storeVars, postVars, workerVars, bgVars, appended,
                 sPhase, intervalOn, ticks, lastSentIndex, cancelled, queued,
                 pendingRead, delPending, events, statusAtOpen>>

\* checkUpdates 57-80 with lastSentIndex assigned outside the test of 66: it
\* takes the length read by poll i whether or not that is greater.
PollSendMut(i) ==
  /\ polls[i].stage = "gotResults"
  /\ LET currentResults == Reverse(SelectSeq(polls[i].results, IsSong))
         currentResultsLength == Len(currentResults)
         newResults == IF currentResultsLength > lastSentIndex
                       THEN SubSeq(currentResults, lastSentIndex + 1, currentResultsLength)
                       ELSE <<>>
     IN /\ SetOutput(sendSongs(Output, newResults))
        /\ lastSentIndex' = currentResultsLength
        /\ polls' = [polls EXCEPT ![i] = [@ EXCEPT !.stage = "get",
                                                   !.len = currentResultsLength]]
  /\ UNCHANGED <<auxVars, requestVars, resolverVars, gateVars, storeUp, outages, storeVars, postVars, workerVars, bgVars, appended,
                 sPhase, ticks, cancelled, delPending, statusAtOpen>>

\* checkUpdates 57-80 of poll i: the new results are sent, lastSentIndex is
\* advanced and the get of the status is sent.
PollSend(i) ==
  /\ polls[i].stage = "gotResults"
  /\ LET currentResults == Reverse(SelectSeq(polls[i].results, IsSong))
         currentResultsLength == Len(currentResults)
         newResults == IF currentResultsLength > lastSentIndex
                       THEN SubSeq(currentResults, lastSentIndex + 1, currentResultsLength)
                       ELSE <<>>
     IN /\ SetOutput(sendSongs(Output, newResults))
        /\ lastSentIndex' = IF currentResultsLength > lastSentIndex
                            THEN currentResultsLength ELSE lastSentIndex
        /\ polls' = [polls EXCEPT ![i] = [@ EXCEPT !.stage = "get",
                                                   !.len = currentResultsLength]]
  /\ UNCHANGED <<auxVars, requestVars, resolverVars, gateVars, storeUp, outages, storeVars, postVars, workerVars, bgVars, appended,
                 sPhase, ticks, cancelled, delPending, statusAtOpen>>

\* The store serves redis.get(statusKey) of poll i, or fails.
StoreServeGet(i, up) ==
  /\ polls[i].stage = "get"
  /\ polls' = [polls EXCEPT ![i] =
                 IF up THEN [@ EXCEPT !.stage = "gotStatus", !.status = kvStatus]
                 ELSE [@ EXCEPT !.stage = "failed"]]
  /\ UNCHANGED <<auxVars, requestVars, resolverVars, gateVars, storeUp, outages, storeVars, postVars, workerVars, bgVars, appended,
                 sPhase, intervalOn, ticks, lastSentIndex, cancelled, queued,
                 pendingRead, delPending, events, statusAtOpen>>

isJobFinished(status) == status \in {"complete", "failed", "init_failed"}

\* checkUpdates 81-105 of poll i: when the job is finished and all results read
\* were sent, 'done' is sent, the interval is cleared and close() is called.
\* close is the function assigned at 119-122: it clears the interval and sends
\* redis.del(resultsKey, statusKey).
PollFinish(i) ==
  /\ polls[i].stage = "gotStatus"
  /\ IF isJobFinished(polls[i].status) /\ lastSentIndex = polls[i].len
     THEN /\ SetOutput([sendEvent(Output, "done", polls[i].status)
                          EXCEPT !.intervalOn = FALSE])
          /\ delPending' = delPending + 1
     ELSE UNCHANGED <<events, queued, pendingRead, intervalOn, delPending>>
  /\ polls' = RemoveAt(polls, i)
  /\ UNCHANGED <<auxVars, requestVars, resolverVars, gateVars, storeUp, outages, storeVars, postVars, workerVars, bgVars, appended,
                 sPhase, ticks, lastSentIndex, cancelled, statusAtOpen>>

\* The catch of checkUpdates (107-112) of poll i: 'error' is sent, the interval
\* is cleared and close() is called.
PollCatch(i) ==
  /\ polls[i].stage = "failed"
  /\ SetOutput([sendEvent(Output, "error", "Error checking job status")
                  EXCEPT !.intervalOn = FALSE])
  /\ delPending' = delPending + 1
  /\ polls' = RemoveAt(polls, i)
  /\ UNCHANGED <<auxVars, requestVars, resolverVars, gateVars, storeUp, outages, storeVars, postVars, workerVars, bgVars, appended,
                 sPhase, ticks, lastSentIndex, cancelled, statusAtOpen>>

\* The store serves a redis.del(resultsKey, statusKey); a failure is ignored.
StoreServeDel(up) ==
  /\ delPending > 0
  /\ delPending' = delPending - 1
  /\ IF up
     THEN kvResults' = <<>> /\ kvStatus' = Nil
     ELSE UNCHANGED <<kvResults, kvStatus>>
  /\ UNCHANGED <<auxVars, requestVars, resolverVars, gateVars, storeUp, outages, jobStatus, jobResults, kvYears, postVars, workerVars,
                 bgVars, appended, sPhase, intervalOn, ticks, lastSentIndex, polls,
                 cancelled, queued, pendingRead, events, statusAtOpen>>

\* The client reads: it takes the queued chunk, or waits for the next one.
ClientRead ==
  /\ sPhase = "open"
  /\ ~cancelled
  /\ IF queued > 0
     THEN queued' = queued - 1 /\ pendingRead' = pendingRead
     ELSE ~pendingRead /\ pendingRead' = TRUE /\ queued' = queued
  /\ UNCHANGED <<auxVars, requestVars, resolverVars, gateVars, storeUp, outages, storeVars, postVars, workerVars, bgVars, appended,
                 sPhase, intervalOn, ticks, lastSentIndex, polls, cancelled,
                 delPending, events, statusAtOpen>>

\* The client disconnects: the stream is cancelled and its queue is dropped.
ClientCancel ==
  /\ sPhase = "open"
  /\ ~cancelled
  /\ cancelled' = TRUE
  /\ queued' = 0
  /\ pendingRead' = FALSE
  /\ UNCHANGED <<auxVars, requestVars, resolverVars, gateVars, storeUp, outages, storeVars, postVars, workerVars, bgVars, appended,
                 sPhase, intervalOn, ticks, lastSentIndex, polls, delPending, events,
                 statusAtOpen>>

\* maxDuration elapses: the runtime ends the function. The deadline is taken
\* after the polls of the last tick have returned.
Deadline ==
  /\ sPhase = "open"
  /\ ticks = MaxTicks \/ ~intervalOn
  /\ polls = <<>>
  /\ sPhase' = "ended"
  /\ UNCHANGED <<auxVars, requestVars, resolverVars, gateVars, storeUp, outages, storeVars, postVars, workerVars, bgVars, appended,
                 intervalOn, ticks, lastSentIndex, polls, cancelled, queued,
                 pendingRead, delPending, events, statusAtOpen>>

\* The client, having disconnected, requests GET /api/song-stream with the same
\* jobId again once the function serving its first stream has ended: a new
\* stream starts with lastSentIndex = 0.
Reconnect ==
  /\ streamGen = 1
  /\ sPhase = "ended"
  /\ cancelled
  /\ polls = <<>>
  /\ delPending = 0
  /\ streamGen' = 2
  /\ firstEvents' = events
  /\ doneAtReopen' = (bPc = "done")
  /\ sPhase' = "open"
  /\ intervalOn' = TRUE
  /\ statusAtOpen' = jobStatus
  /\ ticks' = 0
  /\ lastSentIndex' = 0
  /\ cancelled' = FALSE
  /\ queued' = 0
  /\ pendingRead' = FALSE
  /\ events' = <<>>
  /\ UNCHANGED <<tokenVars, matchVars, samplerVars, requestVars, resolverVars, gateVars, storeUp,
                 outages, storeVars, postVars, workerVars, bgVars, appended, polls,
                 delPending>>

\* ------------------------------------------------------------- key expiry
\* No handler is running and no job is waiting in the queue.
Quiescent ==
  /\ postPc \in {"idle", "done"}
  /\ wPc \in {"idle", "done"} /\ ~queueMsg
  /\ bPc \in {"idle", "done"}

\* 3600 s pass without a write. The status keys and the years key were written
\* by set(key, value, { ex: 3600 }) and expire; the results lists were written
\* by rpush / lpush, which set no expiry, and no EXPIRE is ever sent for them.
TtlElapses ==
  /\ Quiescent
  /\ jobStatus # Nil \/ kvStatus # Nil \/ kvYears # {}
  /\ jobStatus' = Nil
  /\ kvStatus' = Nil
  /\ kvYears' = {}
  /\ UNCHANGED <<auxVars, jobResults, kvResults, storeUp, outages, postVars, workerVars, bgVars,
                 appended, streamVars, requestVars, resolverVars, gateVars>>

\* ------------------------------------------------- requests without a job
\* Bodies POST /api/process-songs rejects: not JSON (request.json() throws, the
\* outer catch answers 500), no firstSong, remainingSongs not an array (400).
BadPostBodies == {"unparseable", "noFirstSong", "remainingNotArray"}

PostBadRequest(kind) ==
  /\ postPc = "idle"
  /\ postBody' = kind
  /\ postResp' = IF kind = "unparseable" THEN 500 ELSE 400
  /\ postPc' = "done"
  /\ UNCHANGED <<auxVars, workerBody, resolverVars, gateVars, streamVars, storeUp, outages,
                 storeVars, firstSong, remainingSongs, processedFirstSong, queueMsg,
                 workerVars, bgVars, appended>>

\* Bodies the worker rejects: not JSON (JSON.parse throws, the outer catch has
\* no jobId and answers 500), no jobId, songsToProcess not an array (400).
BadWorkerBodies == {"unparseable", "noJobId", "songsNotArray"}

WorkerBadRequest(kind) ==
  /\ wPc = "idle"
  /\ workerBody' = kind
  /\ wResp' = IF kind = "unparseable" THEN 500 ELSE 400
  /\ wPc' = "done"
  /\ UNCHANGED <<auxVars, postBody, resolverVars, gateVars, streamVars, storeUp, outages,
                 storeVars, postVars, wI, wCur, bgVars, appended>>

BadRequest ==
  \/ \E kind \in BadPostBodies : PostBadRequest(kind)
  \/ \E kind \in BadWorkerBodies : WorkerBadRequest(kind)

\* ------------------------------------------------ one call of getReleaseData
\* releaseData.formats: none; one format described as LP and Promo; an LP
\* followed by a second format described as Promo.
FormatsPromoFirst == << <<<<"L", "P">>, <<"P", "r", "o", "m", "o">>>> >>

\* The catalogs a resolution may meet.
Catalogs ==
  [search : CallOutcomes, hits : BOOLEAN, artistSearch : CallOutcomes,
   artistHits : BOOLEAN, titled : BOOLEAN, bestMatchScore : {60, 100},
   master : CallOutcomes, release : CallOutcomes, masterYear : {0, 1984},
   formats : {<<>>, FormatsPromoFirst,
              << <<<<"L", "P">>>>, <<<<"P", "r", "o", "m", "o">>>> >>}, releasedIsString : BOOLEAN,
   released : {<<>>, <<"1", "9", "8", "4", "-", "0", "7">>, <<"1", "8", "5", "0">>}]

\* getReleaseData(rSong) runs against rCatalog and returns or throws.
ResolveCall ==
  /\ rPc = "call"
  /\ LET r == getReleaseData(rSong, rCatalog)
     IN /\ rResult' = r
        /\ rPc' = IF Threw(r) THEN "threw" ELSE "returned"
  /\ rRequests' = getDiscogsRun(rSong, rCatalog).requests
  /\ rCaught' = (Threw(getDiscogsTry(rSong, rCatalog)) /\ ~Threw(rResult'))
  /\ UNCHANGED <<auxVars, rSong, rCatalog, requestVars, gateVars, streamVars, storeUp, outages,
                 storeVars, postVars, workerVars, bgVars, appended>>

\* --------------------------------------------- one call of fallbackToSpotify
\* The components a currentReleaseDate is made of; a date is a year alone, a
\* year and a month, or year, month and day, joined by "-".
DatedSongs ==
  LET YearParts == {<<>>, <<"1", "9", "9", "9">>, <<"8", "5">>}
      MonthParts == {<<>>, <<"0", "3">>, <<"3">>, <<"1", "2">>, <<"1", "3">>, <<"0", "0">>, <<"3", "x">>, <<"x", "3">>}
      DayParts == {<<>>, <<"0", "7">>, <<"7">>}
      Dash == <<"-">>
      Dates ==
        YearParts
          \cup {y \o Dash \o m : y \in YearParts, m \in MonthParts}
          \cup {y \o Dash \o m \o Dash \o d :
                  y \in YearParts, m \in MonthParts, d \in DayParts}
  IN {[title |-> "a", spotifyUrl |-> "spotify:a", currentReleaseDate |-> date] :
        date \in Dates}

\* fallbackToSpotify(rSong) is called and returns.
FallbackCall ==
  /\ rPc = "call"
  /\ rResult' = fallbackToSpotify(rSong)
  /\ rPc' = "returned"
  /\ UNCHANGED <<auxVars, rSong, rCatalog, rRequests, rCaught, requestVars, gateVars, streamVars, storeUp,
                 outages, storeVars, postVars, workerVars, bgVars, appended>>

\* ------------------------------------- candidate selection (138-166)
\* The cleaned artist and title of the song being resolved (107-108).
NormArtist == <<"b", "e", "a", "t", "l", "e", "s">>
NormTitle == <<"h", "e", "y", " ", "j", "u", "d", "e">>

\* Candidate titles: "Beatles - Hey Jude", "The Beatles - Hey Jude",
\* "Beatles - Hey Jude - Live", "Hey Jude", "Beatles - Help".
CandidateTitles ==
    {<<"B", "e", "a", "t", "l", "e", "s", " ", "-", " ", "H", "e", "y", " ",
      "J", "u", "d", "e">>,
     <<"T", "h", "e", " ", "B", "e", "a", "t", "l", "e", "s", " ", "-", " ",
      "H", "e", "y", " ", "J", "u", "d", "e">>,
     <<"B", "e", "a", "t", "l", "e", "s", " ", "-", " ", "H", "e", "y", " ",
      "J", "u", "d", "e", " ", "-", " ", "L", "i", "v", "e">>,
     <<"H", "e", "y", " ", "J", "u", "d", "e">>,
     <<"B", "e", "a", "t", "l", "e", "s", " ", "-", " ", "H", "e", "l",
      "p">>}
Candidates == [title : CandidateTitles, year : {<<"1", "9", "6", "8">>, <<"1", "8", "5", "0">>, Undefined}]

\* searchData.results has at most MaxCandidates entries.
MaxCandidates == 2
CandidateLists ==
  {<<>>} \cup {<<c>> : c \in Candidates}
         \cup {<<c1, c2>> : c1 \in Candidates, c2 \in Candidates}

\* The search has returned its results.
MatchSearchReturns ==
  /\ mPc = "idle"
  /\ \E results \in {l \in CandidateLists : Len(l) <= MaxCandidates} :
       mResults' = results
  /\ mCalls' = {"search"}
  /\ mPc' = "select"
  /\ UNCHANGED <<tokenVars, mScores, mBest, mBestScore, samplerVars, reconnectVars, requestVars,
                 resolverVars, gateVars, streamVars, storeUp, outages, storeVars,
                 postVars, workerVars, bgVars, appended>>

\* 138-157: no results, or the best score below 80: the fallback is returned;
\* otherwise the master of the best match is to be fetched.
MatchSelect ==
  /\ mPc = "select"
  /\ LET best == bestMatch(mResults, NormArtist, NormTitle)
     IN /\ mScores' = [i \in 1..Len(mResults) |->
                         calculateMatchScore(mResults[i], NormArtist, NormTitle)]
        /\ mBest' = best.index
        /\ mBestScore' = best.score
        /\ mPc' = IF mResults = <<>> \/ best.index = 0 \/ best.score < 80
                  THEN "fallback" ELSE "fetchMaster"
  /\ UNCHANGED <<tokenVars, mResults, mCalls, samplerVars, reconnectVars, requestVars,
                 resolverVars, gateVars, streamVars, storeUp, outages, storeVars,
                 postVars, workerVars, bgVars, appended>>

\* 161-166: fetch(masterUrl).
MatchFetchMaster ==
  /\ mPc = "fetchMaster"
  /\ mCalls' = mCalls \cup {"master"}
  /\ mPc' = "fetchRelease"
  /\ UNCHANGED <<tokenVars, mResults, mScores, mBest, mBestScore, samplerVars, reconnectVars,
                 requestVars, resolverVars, gateVars, streamVars, storeUp, outages,
                 storeVars, postVars, workerVars, bgVars, appended>>

\* 170-175: fetch(releaseUrl).
MatchFetchRelease ==
  /\ mPc = "fetchRelease"
  /\ mCalls' = mCalls \cup {"release"}
  /\ mPc' = "done"
  /\ UNCHANGED <<tokenVars, mResults, mScores, mBest, mBestScore, samplerVars, reconnectVars,
                 requestVars, resolverVars, gateVars, streamVars, storeUp, outages,
                 storeVars, postVars, workerVars, bgVars, appended>>

\* -------------------------------------------- the sampler (GET, part_007)
maxQuizSize == 200
spotifyApiLimit == 50

\* The longest playlist considered.
MaxPlaylist == 230

\* The most track pages one request is followed through.
MaxPages == 8

Min(a, b) == IF a < b THEN a ELSE b

\* A playlist item: its track is null, or lacks data the quiz needs, or is
\* complete. pos is the item's position in the playlist.
\* The kinds are "null", "partial" and "full"; a playlist is all "full", all
\* "partial" (unusable), or alternates the three kinds (gaps).
PlaylistOf(n, pattern) ==
  [p \in 1..n |->
     [pos |-> p,
      kind |-> CASE pattern = "full" -> "full"
                 [] pattern = "unusable" -> "partial"
                 [] OTHER -> IF p % 3 = 0 THEN "null"
                             ELSE IF p % 3 = 1 THEN "partial" ELSE "full"]]
Playlists ==
  {PlaylistOf(n, pattern) : n \in {0, 1, 3, spotifyApiLimit + 1, MaxPlaylist},
                            pattern \in {"full", "gaps", "unusable"}}

\* Math.random() of the request: always 0, always 1/2, always just below 1.
\* The sources are "low", "mid" and "high".
\* Math.floor(Math.random() * n)
RandomBelow(rnd, n) ==
  CASE rnd = "low" -> 0
    [] rnd = "mid" -> n \div 2
    [] OTHER -> n - 1

\* 924 without the cap of maxQuizSize.
numSongsToSampleMut(totalTracks) == totalTracks

\* 924
numSongsToSample(totalTracks) == Min(totalTracks, maxQuizSize)

\* 965-979
potentialQuizSongs(sampledSongs) ==
  LET usable == SelectSeq(sampledSongs, LAMBDA track : track.kind = "full")
  IN [k \in 1..Len(usable) |-> [track |-> usable[k].pos]]

\* 880-927: the request names a playlist; its metadata is fetched.
SamplerRequest ==
  /\ sampPc = "idle"
  /\ \E pl \in Playlists, rnd \in {"low", "mid", "high"}, metaOk \in BOOLEAN, items \in BOOLEAN :
       /\ playlist' = pl
       /\ sampRnd' = rnd
       /\ apiItems' = items
       /\ sampPc' = IF ~metaOk THEN "error"
                    ELSE IF Len(pl) = 0 THEN "empty" ELSE "fetch"
  /\ fetchedTracks' = <<>>
  /\ offset' = 0
  /\ pagesRequested' = 0
  /\ lastLimit' = 0
  /\ UNCHANGED <<tokenVars, candidates, sentFirst, sentRemaining, shuffleI, matchVars,
                 reconnectVars, requestVars,
                 resolverVars, gateVars, streamVars, storeUp, outages, storeVars,
                 postVars, workerVars, bgVars, appended>>

\* 930-956: one iteration of the fetch loop. When the loop is left, shuffleArray
\* is entered with i = array.length - 1 (874).
SamplerFetchBatch ==
  /\ sampPc = "fetch"
  /\ Len(fetchedTracks) < numSongsToSample(Len(playlist))
  /\ pagesRequested < MaxPages
  /\ LET limit == Min(spotifyApiLimit,
                      numSongsToSample(Len(playlist)) - Len(fetchedTracks))
         items == SubSeq(playlist, offset + 1, Min(offset + limit, Len(playlist)))
         \* 952: batchData.items?.map(...).filter(Boolean) || []
         tracksInBatch == IF apiItems
                          THEN SelectSeq(items, LAMBDA item : item.kind # "null")
                          ELSE <<>>
         \* 955: batchData.items?.length < limit, false when items is undefined
         shortPage == apiItems /\ Len(items) < limit
     IN /\ lastLimit' = limit
        /\ \E batchOk \in BOOLEAN :
             IF ~batchOk
             THEN /\ sampPc' = IF Len(fetchedTracks) > 0 THEN "shuffle" ELSE "error"
                  /\ UNCHANGED <<fetchedTracks, offset>>
             ELSE /\ fetchedTracks' = fetchedTracks \o tracksInBatch
                  /\ offset' = offset + limit
                  /\ sampPc' = IF shortPage
                                  \/ Len(fetchedTracks') >= numSongsToSample(Len(playlist))
                               THEN "shuffle" ELSE "fetch"
  /\ pagesRequested' = pagesRequested + 1
  /\ shuffleI' = Len(fetchedTracks') - 1
  /\ UNCHANGED <<tokenVars, apiItems, playlist, sampRnd, candidates, sentFirst, sentRemaining, matchVars,
                 reconnectVars, requestVars,
                 resolverVars, gateVars, streamVars, storeUp, outages, storeVars,
                 postVars, workerVars, bgVars, appended>>

\* 872-878, called at 960: one iteration of the Fisher-Yates loop, which
\* shuffles fetchedTracks in place.
shuffleArray ==
  /\ sampPc = "shuffle"
  /\ shuffleI > 0
  /\ LET i == shuffleI
         j == RandomBelow(sampRnd, i + 1)
     IN fetchedTracks' = [fetchedTracks EXCEPT ![i + 1] = fetchedTracks[j + 1],
                                               ![j + 1] = fetchedTracks[i + 1]]
  /\ shuffleI' = shuffleI - 1
  /\ UNCHANGED <<tokenVars, apiItems, pagesRequested, lastLimit, sampPc, playlist, sampRnd,
                 offset, candidates, sentFirst, sentRemaining,
                 matchVars, reconnectVars, requestVars, resolverVars, gateVars,
                 streamVars, storeUp, outages, storeVars, postVars, workerVars, bgVars,
                 appended>>

\* 961-984: after the shuffle, take the first numSongsToSample, map, drop
\* tracks with missing data.
SamplerSample ==
  /\ sampPc = "shuffle"
  /\ shuffleI <= 0
  /\ LET sampledSongs == SubSeq(fetchedTracks, 1,
                                Min(numSongsToSample(Len(playlist)), Len(fetchedTracks)))
     IN /\ candidates' = potentialQuizSongs(sampledSongs)
        /\ sampPc' = IF candidates' = <<>> THEN "noSongs" ELSE "delegate"
  /\ UNCHANGED <<tokenVars, apiItems, pagesRequested, lastLimit, playlist, sampRnd,
                 fetchedTracks, offset, sentFirst, sentRemaining,
                 shuffleI, matchVars, reconnectVars, requestVars,
                 resolverVars, gateVars, streamVars, storeUp, outages, storeVars,
                 postVars, workerVars, bgVars, appended>>

\* 987-1006: a random first song, the others as remaining songs, sent to
\* POST /api/process-songs.
SamplerDelegate ==
  /\ sampPc = "delegate"
  /\ \E randomIndex \in 0..(Len(candidates) - 1) :
       /\ sentFirst' = candidates[randomIndex + 1]
       /\ sentRemaining' = RemoveAt(candidates, randomIndex + 1)
  /\ sampPc' = "posted"
  /\ UNCHANGED <<tokenVars, apiItems, pagesRequested, lastLimit, playlist, sampRnd,
                 fetchedTracks, offset, candidates, shuffleI,
                 matchVars, reconnectVars, requestVars,
                 resolverVars, gateVars, streamVars, storeUp, outages, storeVars,
                 postVars, workerVars, bgVars, appended>>

\* ------------------------------------- getAccessToken (part_007, 831-863)
\* The clock of the token cache advances by TokenStep up to MaxTokenTime.
TokenStep == 500
MaxTokenTime == 4000

TokenClockTick ==
  /\ tokenNow + TokenStep <= MaxTokenTime
  /\ tokenNow' = tokenNow + TokenStep
  /\ UNCHANGED <<tokenData, tokenExpiration, tokenCall, matchVars, samplerVars,
                 reconnectVars, requestVars, resolverVars, gateVars, streamVars, storeUp,
                 outages, storeVars, postVars, workerVars, bgVars, appended>>

\* 834-838: the cached token is returned.
TokenReuse ==
  /\ tokenData /\ tokenNow < tokenExpiration
  /\ tokenCall' = "reused"
  /\ UNCHANGED <<tokenData, tokenExpiration, tokenNow, matchVars, samplerVars,
                 reconnectVars, requestVars, resolverVars, gateVars, streamVars, storeUp,
                 outages, storeVars, postVars, workerVars, bgVars, appended>>

\* 840-862: a token is requested; the response is stored, or the call throws.
TokenFetch ==
  /\ ~(tokenData /\ tokenNow < tokenExpiration)
  /\ \E ok \in BOOLEAN, expires_in \in {2, 3} :
       IF ok
       THEN /\ tokenData' = TRUE
            /\ tokenExpiration' = tokenNow + (expires_in * 1000)
            /\ tokenCall' = "fetched"
       ELSE /\ tokenCall' = "threw"
            /\ UNCHANGED <<tokenData, tokenExpiration>>
  /\ UNCHANGED <<tokenNow, matchVars, samplerVars, reconnectVars, requestVars,
                 resolverVars, gateVars, streamVars, storeUp, outages, storeVars,
                 postVars, workerVars, bgVars, appended>>

\* ------------------------------ catalog requests of concurrent resolutions
\* Resolutions running at once in one process: the songs of one batch
\* (Promise.all), or the resolutions of concurrent requests.
MaxResolutions == 2
TimeStep == 500
MaxTime == 3000
\* setTimeout(resolve, 1000) before the first request and after each one.
SleepMs == 1000
\* search, artist-only search, master, release.
CatalogCalls == 4

Resolutions == 1..MaxResolutions

\* getDiscogsData is called: it sleeps before its first request.
GateStart(k) ==
  /\ gPc[k] = "idle"
  /\ gPc' = [gPc EXCEPT ![k] = "sleep"]
  /\ gWake' = [gWake EXCEPT ![k] = now + SleepMs]
  /\ UNCHANGED <<auxVars, now, gCalls, requestStarts, requestVars, resolverVars, streamVars,
                 storeUp, outages, storeVars, postVars, workerVars, bgVars, appended>>

\* The timer has fired: the next fetch starts.
GateFetch(k) ==
  /\ gPc[k] = "sleep"
  /\ now >= gWake[k]
  /\ gPc' = [gPc EXCEPT ![k] = "fetch"]
  /\ gCalls' = [gCalls EXCEPT ![k] = gCalls[k] + 1]
  /\ requestStarts' = Append(requestStarts, now)
  /\ UNCHANGED <<auxVars, now, gWake, requestVars, resolverVars, streamVars,
                 storeUp, outages, storeVars, postVars, workerVars, bgVars, appended>>

\* fetch settles; the call sleeps again, then goes on to its next request or,
\* when `last` (a result was reached or an exception thrown), returns.
GateResponse(k, last) ==
  /\ gPc[k] = "fetch"
  /\ last \/ gCalls[k] < CatalogCalls
  /\ gPc' = [gPc EXCEPT ![k] = IF last THEN "done" ELSE "sleep"]
  /\ gWake' = [gWake EXCEPT ![k] = now + SleepMs]
  /\ UNCHANGED <<auxVars, now, gCalls, requestStarts, requestVars, resolverVars, streamVars,
                 storeUp, outages, storeVars, postVars, workerVars, bgVars, appended>>

\* Time passes.
ClockTick ==
  /\ now < MaxTime
  /\ now' = now + TimeStep
  /\ UNCHANGED <<auxVars, gPc, gWake, gCalls, requestStarts, requestVars, resolverVars, streamVars,
                 storeUp, outages, storeVars, postVars, workerVars, bgVars, appended>>

\* ------------------------------------------------------------ specification
NoProcessed == fallbackToSpotify(NoSong)

InitProgram ==
  /\ storeUp = TRUE /\ outages = 0
  /\ jobStatus = Nil /\ jobResults = <<>>
  /\ kvStatus = Nil /\ kvResults = <<>> /\ kvYears = {}
  /\ postPc = "idle" /\ firstSong = NoSong /\ remainingSongs = <<>>
  /\ processedFirstSong = NoProcessed /\ postResp = 0 /\ queueMsg = FALSE
  /\ wPc = "idle" /\ wI = 0 /\ wCur = NoProcessed /\ wResp = 0
  /\ bPc = "idle" /\ bI = 0 /\ bCur = NoProcessed /\ processedYears = {}
  /\ appended = <<>>
  /\ sPhase = "none" /\ intervalOn = FALSE /\ ticks = 0 /\ lastSentIndex = 0
  /\ polls = <<>> /\ cancelled = FALSE /\ queued = 0 /\ pendingRead = FALSE
  /\ delPending = 0 /\ events = <<>> /\ statusAtOpen = Nil
  /\ postBody = "none" /\ workerBody = "none"
  /\ now = 0
  /\ gPc = [k \in Resolutions |-> "idle"]
  /\ gWake = [k \in Resolutions |-> 0]
  /\ gCalls = [k \in Resolutions |-> 0]
  /\ requestStarts = <<>>
  /\ mPc = "idle" /\ mResults = <<>> /\ mScores = <<>> /\ mBest = 0
  /\ mBestScore = -1 /\ mCalls = {}
  /\ sampPc = "idle" /\ playlist = <<>> /\ sampRnd = "low" /\ fetchedTracks = <<>>
  /\ offset = 0 /\ candidates = <<>> /\ sentFirst = 0 /\ sentRemaining = <<>>
  /\ shuffleI = 0 /\ apiItems = TRUE /\ pagesRequested = 0 /\ lastLimit = 0
  /\ tokenData = FALSE /\ tokenExpiration = 0 /\ tokenNow = 0 /\ tokenCall = "none"
  /\ streamGen = 1 /\ firstEvents = <<>> /\ doneAtReopen = FALSE

Init ==
  /\ InitProgram
  /\ rPc = "idle" /\ rSong = NoSong /\ rCatalog = CatDown /\ rResult = NoProcessed
  /\ rRequests = <<>> /\ rCaught = FALSE

Orchestrator ==
  \/ PostReceive(MaxSongs)
  \/ PostResolved
  \/ PostSetQueued(storeUp)
  \/ PostPublish
  \/ PostPublishFails
  \/ PostSetPublishFailed(storeUp)
  \/ PostSetComplete(storeUp)

Worker ==
  \/ WorkerInvoke
  \/ WorkerSetProcessing(storeUp)
  \/ WorkerResolve
  \/ WorkerRpush(storeUp)
  \/ WorkerRpushError(storeUp)
  \/ WorkerSetComplete(storeUp)
  \/ WorkerSetFailed(storeUp)

Background ==
  \/ BgPostResolved
  \/ BgInitYears(storeUp)
  \/ BgInitStatus(storeUp)
  \/ BgDelResults(storeUp)
  \/ BgResolve
  \/ BgLpush(storeUp)
  \/ BgSetYears(storeUp)
  \/ BgSetComplete(storeUp)
  \/ BgSetFailed(storeUp)
  \/ BgSetInitFailed(storeUp)

Stream ==
  \/ StreamOpen
  \/ Tick
  \/ \E i \in 1..Len(polls) : StoreServeLrange(i, storeUp)
  \/ \E i \in 1..Len(polls) : PollSend(i)
  \/ \E i \in 1..Len(polls) : StoreServeGet(i, storeUp)
  \/ \E i \in 1..Len(polls) : PollFinish(i)
  \/ \E i \in 1..Len(polls) : PollCatch(i)
  \/ StoreServeDel(storeUp)
  \/ ClientRead
  \/ ClientCancel
  \/ Deadline

\* The stream while the store stays reachable.
StreamUp ==
  \/ StreamOpen
  \/ Tick
  \/ \E i \in 1..Len(polls) : StoreServeLrange(i, TRUE)
  \/ \E i \in 1..Len(polls) : PollSend(i)
  \/ \E i \in 1..Len(polls) : StoreServeGet(i, TRUE)
  \/ \E i \in 1..Len(polls) : PollFinish(i)
  \/ StoreServeDel(TRUE)
  \/ ClientRead
  \/ ClientCancel
  \/ Deadline

\* The deployment with the queue variant of process-songs/route.ts (337-409):
\* orchestrator, queue, worker, stream and a store that may become unreachable.
Next == Orchestrator \/ Worker \/ Stream \/ Store \/ BadRequest

Spec == Init /\ [][Next]_vars

\* The deployment with the background variant of process-songs/route.ts
\* (750-859) and a store that stays reachable.
BackgroundUp ==
  \/ BgPostResolved
  \/ BgInitYears(TRUE)
  \/ BgInitStatus(TRUE)
  \/ BgDelResults(TRUE)
  \/ BgResolve
  \/ BgLpush(TRUE)
  \/ BgSetYears(TRUE)
  \/ BgSetComplete(TRUE)

NextBackground == PostReceive(MaxBgSongs) \/ BackgroundUp \/ StreamUp

SpecBackground == Init /\ [][NextBackground]_vars

\* The background variant with a store that may become unreachable.
NextBackgroundOutage == PostReceive(MaxOutageSongs) \/ Background \/ Stream \/ Store

SpecBackgroundOutage == Init /\ [][NextBackgroundOutage]_vars

\* The background variant with a client that reconnects to the stream.
NextReconnect == PostReceive(MaxSongs) \/ BackgroundUp \/ StreamUp \/ Reconnect

SpecReconnect == Init /\ [][NextReconnect]_vars

\* The queue deployment with the store reachable throughout and with the
\* expiry of the keys that were written with { ex: 3600 }.
OrchestratorUp ==
  \/ PostReceive(MaxSongs)
  \/ PostResolved
  \/ PostSetQueued(TRUE)
  \/ PostPublish
  \/ PostPublishFails
  \/ PostSetPublishFailed(TRUE)
  \/ PostSetComplete(TRUE)

WorkerUp ==
  \/ WorkerInvoke
  \/ WorkerSetProcessing(TRUE)
  \/ WorkerResolve
  \/ WorkerRpush(TRUE)
  \/ WorkerSetComplete(TRUE)

NextTtl == OrchestratorUp \/ WorkerUp \/ TtlElapses

SpecTtl == Init /\ [][NextTtl]_vars

\* The background variant with the store reachable throughout and with the
\* expiry of the keys that were written with { ex: 3600 }.
NextBackgroundTtl == NextBackground \/ TtlElapses

SpecBackgroundTtl == Init /\ [][NextBackgroundTtl]_vars

\* getReleaseData applied to every song and catalog.
InitResolver ==
  /\ InitProgram
  /\ rPc = "call" /\ rSong \in Songs /\ rCatalog \in Catalogs /\ rResult = NoProcessed
  /\ rRequests = <<>> /\ rCaught = FALSE

NextResolver == ResolveCall

SpecResolver == InitResolver /\ [][NextResolver]_vars

\* One call of fallbackToSpotify on a song with some release date.
InitFallback ==
  /\ InitProgram
  /\ rPc = "call" /\ rSong \in DatedSongs /\ rCatalog = CatDown /\ rResult = NoProcessed
  /\ rRequests = <<>> /\ rCaught = FALSE

NextFallback == FallbackCall

SpecFallback == InitFallback /\ [][NextFallback]_vars

\* Calls of getAccessToken as time passes.
NextToken == TokenReuse \/ TokenFetch \/ TokenClockTick

SpecToken == Init /\ [][NextToken]_vars

\* The selection of the best match among the search results.
NextMatch ==
  \/ MatchSearchReturns
  \/ MatchSelect
  \/ MatchFetchMaster
  \/ MatchFetchRelease

SpecMatch == Init /\ [][NextMatch]_vars

\* One request to the sampler.
NextSampler ==
  \/ SamplerRequest
  \/ SamplerFetchBatch
  \/ shuffleArray
  \/ SamplerSample
  \/ SamplerDelegate

SpecSampler == Init /\ [][NextSampler]_vars

\* Concurrent calls of getDiscogsData and the clock.
NextGate ==
  \/ \E k \in Resolutions : GateStart(k)
  \/ \E k \in Resolutions : GateFetch(k)
  \/ \E k \in Resolutions, last \in BOOLEAN : GateResponse(k, last)
  \/ ClockTick

SpecGate == Init /\ [][NextGate]_vars

\* ------------------------------------------------------------------ claims
IsPrefix(a, b) == Len(a) <= Len(b) /\ \A i \in 1..Len(a) : a[i] = b[i]

IsSongEvent(e) == e.event = "song"
IsDoneEvent(e) == e.event = "done"
IsErrorEvent(e) == e.event = "error"

\* The ProcessedSongs of the song events of an event sequence, in order.
SongsSent(evs) ==
  LET sel == SelectSeq(evs, IsSongEvent) IN [i \in 1..Len(sel) |-> sel[i].data]

DoneCount(evs) == Len(SelectSeq(evs, IsDoneEvent))

DoneSent(status) ==
  \E i \in 1..Len(events) : events[i].event = "done" /\ events[i].data = status

\* The stream ran to its deadline with the client connected, every poll having
\* returned and none having failed.
StreamRanToDeadline ==
  /\ sPhase = "ended"
  /\ ticks = MaxTicks
  /\ ~cancelled
  /\ SelectSeq(events, IsErrorEvent) = <<>>

\* C1: a stream opened on a job whose worker has written status complete has
\* emitted done with data complete by the time its deadline ends it.
C1_DoneAfterWorkerComplete ==
  (StreamRanToDeadline /\ statusAtOpen = "complete" /\ wPc = "done")
    => DoneSent("complete")

\* C2: in the step that emits done, every entry that is in the results list
\* at that moment has been emitted as a song event.
C2_NoSongLostAtDone ==
  [][DoneCount(events') > DoneCount(events)
       => \A k \in 1..Len(kvResults) :
            \E j \in 1..Len(events') :
              events'[j].event = "song" /\ events'[j].data = kvResults[k]]_vars

\* C3: the song events emitted so far are a prefix of the entries appended to
\* the results list, in the order they were appended.
C3_SongsArePrefix == IsPrefix(SongsSent(events), appended)

\* C4: once done has been emitted, no further event is emitted.
C4_DoneIsLast == [][DoneCount(events) > 0 => events' = events]_vars

YearsOf(results) == {results[i].releaseYear : i \in 1..Len(results)}

\* No two entries of a results list share a releaseYear other than "N/A".
UniqueYears(results) ==
  \A i, j \in 1..Len(results) :
    (i # j /\ results[i].releaseYear = results[j].releaseYear)
      => results[i].releaseYear = NA

\* C5: no two entries of a job's results list have the same releaseYear other
\* than "N/A".
C5_UniqueYears == UniqueYears(jobResults) /\ UniqueYears(kvResults)

\* C6: no entry of a job's results list has the releaseYear of the first song
\* that POST resolved inline.
C6_FirstYearNotInResults ==
  postPc = "done"
    => processedFirstSong.releaseYear \notin (YearsOf(jobResults) \cup YearsOf(kvResults))

\* C7: once the job is created, the years set equals the releaseYears of the
\* entries in results together with the first song's releaseYear.
C7_YearsMatchResults ==
  bPc \notin {"idle", "initYears", "initStatus", "delResults"}
    => kvYears = YearsOf(kvResults) \cup {processedFirstSong.releaseYear}

AllDigits(s) == \A i \in 1..Len(s) : IsDigit(s[i])

\* "N/A", or the decimal digits of an integer in [1900, currentYear].
ValidYear(y) ==
  \/ y = NA
  \/ /\ y # <<>>
     /\ AllDigits(y)
     /\ ParseInt(y) >= 1900
     /\ ParseInt(y) <= CurrentYear

\* C8: every ProcessedSong stored in results, and the one POST returns, has a
\* releaseYear that is "N/A" or an integer in [1900, currentYear].
C8_YearsInRange ==
  /\ \A i \in 1..Len(jobResults) : ValidYear(jobResults[i].releaseYear)
  /\ \A i \in 1..Len(kvResults) : ValidYear(kvResults[i].releaseYear)
  /\ postResp = 200 => ValidYear(processedFirstSong.releaseYear)

\* C9: a stream opened on a job whose status is worker_failed or publish_failed
\* has emitted the stored results and then done with that status by the time
\* its deadline ends it.
C9_DoneAfterFailure ==
  (StreamRanToDeadline /\ statusAtOpen \in {"worker_failed", "publish_failed"}
     /\ postPc = "done" /\ wPc \in {"idle", "done"})
    => /\ DoneSent(statusAtOpen)
       /\ SongsSent(events) = jobResults

StatusValues == {"queued", "processing", "complete", "publish_failed", "worker_failed"}

\* The status changes the claim lists.
ClaimedStatusEdges ==
  {<<"queued", "processing">>, <<"processing", "complete">>,
   <<"processing", "worker_failed">>, <<"queued", "complete">>,
   <<"queued", "publish_failed">>}

\* C10 as stated: every status written is one of the five values and an
\* existing status changes only along the five listed edges.
C10_StatusEdgesAsClaimed ==
  [][/\ jobStatus' \in StatusValues \cup {Nil}
     /\ (jobStatus # Nil /\ jobStatus' # jobStatus)
          => <<jobStatus, jobStatus'>> \in ClaimedStatusEdges]_vars

\* C10 amended: every status written is one of the five values; an existing
\* status changes only along the five listed edges or queued -> worker_failed
\* (the write of processing failed and the worker then failed); complete,
\* worker_failed and publish_failed are never overwritten and the key is never
\* removed.
C10_StatusEdges ==
  [][/\ jobStatus' \in StatusValues \cup {Nil}
     /\ (jobStatus # Nil /\ jobStatus' # jobStatus)
          => <<jobStatus, jobStatus'>>
               \in ClaimedStatusEdges \cup {<<"queued", "worker_failed">>}]_vars

\* The worker failed on a job whose status was still queued.
C10_Witness ==
  /\ jobStatus = "worker_failed"
  /\ wResp = 500
  /\ Len(jobResults) < Len(remainingSongs)

\* C11: right after POST has created the job and before any later write, the
\* status is queued, the results list is empty and the years set holds exactly
\* the first song's releaseYear.
C11_JobInitialised ==
  (postBody = "ok" /\ postPc \in {"publish", "setPublishFailed", "setComplete"}
     /\ workerBody = "none")
    => /\ jobStatus = "queued"
       /\ jobResults = <<>>
       /\ kvYears = {processedFirstSong.releaseYear}

\* POST has answered a request with songs to process whose publish failed: the
\* only path that writes publish_failed, and the only one that answers 500 to
\* a well-formed request with remaining songs.
PublishFailed ==
  /\ postBody = "ok" /\ postPc = "done" /\ Len(remainingSongs) > 0
  /\ (jobStatus = "publish_failed" \/ postResp = 500)

\* C12 as stated: after a failed publish the status is publish_failed, POST
\* has answered 200, no worker runs and the results stay empty.
C12_PublishFailureAsClaimed ==
  PublishFailed
    => /\ jobStatus = "publish_failed" /\ postResp = 200
       /\ workerBody # "ok" /\ jobResults = <<>>

\* C12 amended: after a failed publish, POST has answered 200 with the status
\* publish_failed when that write succeeded and 500 with the status left as it
\* was when it failed; either way no worker runs and the results stay empty.
C12_PublishFailure ==
  PublishFailed
    => /\ \/ postResp = 200 /\ jobStatus = "publish_failed"
          \/ postResp = 500 /\ jobStatus \in {Nil, "queued"}
       /\ workerBody # "ok" /\ jobResults = <<>>

\* The publish failed, publish_failed was written and a stream ran on the job.
C12_Witness ==
  PublishFailed /\ postResp = 200 /\ jobStatus = "publish_failed" /\ sPhase = "ended"

\* C13: with no remaining songs no job is published, the status is complete
\* without a worker, and a stream on the job has emitted no song and exactly
\* one done, with data complete, by its deadline.
C13_EmptyJobStream ==
  (postBody = "ok" /\ postPc = "done" /\ remainingSongs = <<>> /\ postResp = 200)
    => /\ ~queueMsg /\ workerBody # "ok" /\ jobStatus = "complete"
       /\ StreamRanToDeadline
            => /\ SongsSent(events) = <<>>
               /\ DoneCount(events) = 1
               /\ DoneSent("complete")

\* C14: POST never answers 200 to a well-formed request while the job's status
\* key is unwritten.
C14_NoOkWithoutStatus ==
  (postBody = "ok" /\ postResp = 200) => jobStatus # Nil

\* C15: a request with a missing or malformed body is answered 400 and writes
\* no key.
C15_BadRequestIs400 ==
  /\ (postBody \in BadPostBodies)
       => postResp = 400 /\ jobStatus = Nil /\ jobResults = <<>>
  /\ (workerBody \in BadWorkerBodies) => wResp = 400 /\ appended = <<>>

\* C16: when the worker has answered 200 the job's status is complete.
C16_WorkerOkMeansComplete == wResp = 200 => jobStatus = "complete"

\* C17: when the worker's write of processing has failed (the status is still
\* what POST left), the worker processes no song: it goes to its failure
\* handler and answers 500.
C17_WorkerStopsOnWriteFailure ==
  (workerBody = "ok" /\ wPc \notin {"idle", "setProcessing"}
     /\ jobStatus \in {Nil, "queued"})
    => /\ wPc \in {"setWorkerFailed", "done"}
       /\ wPc = "done" => wResp = 500

\* A catalog call that getDiscogsData issues fails, or a field it reads is
\* missing or malformed.
CatalogCallFailed(cat) ==
  \/ cat.search # "ok"
  \/ ~cat.hits /\ cat.artistSearch # "ok"
  \/ /\ cat.hits \/ cat.artistHits
     /\ \/ ~cat.titled
        \/ /\ cat.bestMatchScore >= 80
           /\ \/ cat.master # "ok"
              \/ cat.release # "ok"
              \/ ~IsPromoFormat(cat.formats) /\ Truthy(cat.released) /\ ~cat.releasedIsString
              \/ ~IsPromoFormat(cat.formats) /\ cat.masterYear = 0 /\ cat.released = <<>>

\* C18: getReleaseData returns a ProcessedSong and never throws, and when a
\* catalog call failed the value returned is fallbackToSpotify(song).
C18_ResolveNeverThrows ==
  rPc \in {"returned", "threw"}
    => /\ rPc = "returned"
       /\ ~Threw(rResult)
       /\ CatalogCallFailed(rCatalog) => rResult = fallbackToSpotify(rSong)

\* The release call, the last one, returned a body that is not JSON and the
\* fallback came back.
C18_Witness ==
  /\ rPc = "returned"
  /\ rCatalog.search = "ok" /\ rCatalog.hits /\ rCatalog.titled
  /\ rCatalog.bestMatchScore = 100 /\ rCatalog.master = "ok"
  /\ rCatalog.release = "json"
  /\ rSong = SongA
  /\ rResult = fallbackToSpotify(SongA)

\* C19: any two catalog requests start at least 1000 ms apart.
C19_RequestsSpaced ==
  \A i, j \in 1..Len(requestStarts) :
    i < j => requestStarts[j] - requestStarts[i] >= SleepMs

\* The position of the song with a title in remainingSongs.
PositionOf(title) ==
  CHOOSE i \in 1..Len(remainingSongs) : remainingSongs[i].title = title

\* The entries of a results list follow the order of remainingSongs.
InPayloadOrder(results) ==
  \A i, j \in 1..Len(results) :
    i < j => PositionOf(results[i].title) < PositionOf(results[j].title)

\* C20: the results list holds its entries in the order of remainingSongs.
C20_ResultsInPayloadOrder == InPayloadOrder(jobResults) /\ InPayloadOrder(kvResults)

\* C21: once the status key of a job has expired, its results list is gone too.
C21_ResultsExpireWithStatus ==
  (postBody = "ok" /\ postResp = 200 /\ jobStatus = Nil) => jobResults = <<>>

\* C22: a step of the stream changes no key except when a del it sent is
\* served, and a del removes keys only when the status is not queued or
\* processing.
C22_StreamOnlyDeletesAfterJob ==
  [][/\ (streamVars' # streamVars /\ delPending' >= delPending)
          => UNCHANGED <<kvStatus, kvResults, kvYears>>
     /\ (delPending' < delPending /\ <<kvStatus, kvResults>>' # <<kvStatus, kvResults>>)
          => kvStatus \notin {"queued", "processing"}]_vars

ErrorCount(evs) == Len(SelectSeq(evs, IsErrorEvent))

\* C24: once an error event has been emitted no further event is emitted.
C24_ErrorIsLast == [][ErrorCount(events) > 0 => events' = events]_vars

\* C26: at most one resolution of the songs of one request is in progress.
C26_OneResolutionAtATime ==
  Cardinality({k \in Resolutions : gPc[k] \in {"sleep", "fetch"}}) <= 1

\* The entry the song's catch appends for the song in hand.
ErrorEntry == [fallbackToSpotify(remainingSongs[wI]) EXCEPT !.error = "Failed to process"]

\* C27 as stated: a song whose handling threw never takes the worker to its
\* failure handler.
C27_FailingSongNeverFailsJob ==
  [][wPc = "rpushError" => wPc' # "setWorkerFailed"]_vars

\* C27 amended: when handling song i threw, the worker's next step either
\* appends exactly the error entry of song i and goes on to song i+1 (or to the
\* final status write), or, the append of the error entry failing too, appends
\* nothing and goes to its failure handler; and a worker that answers 200 has
\* appended one entry per song.
C27_FailingSongHandled ==
  [][/\ wPc = "rpushError"
          => \/ wPc' = "rpushError" /\ jobResults' = jobResults
             \/ /\ jobResults' = Append(jobResults, ErrorEntry)
                /\ wI' = wI + 1
                /\ wPc' = WorkerAfterSong(wI)
             \/ wPc' = "setWorkerFailed" /\ jobResults' = jobResults
     /\ wResp' = 200 => Len(jobResults') = Len(remainingSongs')]_vars

\* The first of two songs got its error entry, the second was processed and
\* the worker answered 200.
C27_Witness ==
  /\ wResp = 200
  /\ Len(jobResults) = 2
  /\ jobResults[1].error # Nil
  /\ jobResults[2].error = Nil

\* C28: the best match is the first candidate in list order with the highest
\* score, and when that score is below 80 (or there is no candidate) the
\* fallback is returned with neither master nor release fetched.
C28_FirstMaxSelected ==
  mPc \in {"fallback", "fetchMaster", "fetchRelease", "done"}
    => /\ mResults # <<>>
            => /\ mBest \in 1..Len(mResults)
               /\ mBestScore = mScores[mBest]
               /\ \A i \in 1..Len(mResults) : mScores[i] <= mScores[mBest]
               /\ \A i \in 1..(mBest - 1) : mScores[i] < mScores[mBest]
       /\ (mResults = <<>> \/ mBestScore < 80)
            => mPc = "fallback" /\ mCalls = {"search"}
       /\ (mResults # <<>> /\ mBestScore >= 80) => mPc # "fallback"

\* Two candidates tie at 100: the first is selected and its release fetched.
C28_Witness ==
  /\ mPc = "done"
  /\ Len(mResults) = 2
  /\ mScores = <<100, 100>>
  /\ mBest = 1
  /\ mCalls = {"search", "master", "release"}

\* The score as the claim computes it: the lower-cased title is split at its
\* first " - ".
ClaimedScore(result) ==
  LET resultTitle == toLowerCase(result.title)
      parts == SplitOn(resultTitle, Separator)
  IN IF Len(parts) < 2 THEN 0
     ELSE LET a == parts[1]
              t == SubSeq(resultTitle, Len(a) + Len(Separator) + 1, Len(resultTitle))
              year == ParseInt(result.year)
          IN (IF a = NormArtist THEN 40 ELSE IF Includes(a, NormArtist) THEN 20 ELSE 0)
             + (IF t = NormTitle THEN 40 ELSE IF Includes(t, NormTitle) THEN 20 ELSE 0)
             + (IF year # NaN /\ year >= 1900 /\ year <= CurrentYear THEN 20 ELSE 0)

\* C29: every candidate's score is the sum of the artist, title and year
\* subscores computed on the title split at its first " - ".
C29_ScoreAsClaimed ==
  mPc \in {"fallback", "fetchMaster", "fetchRelease", "done"}
    => \A i \in 1..Len(mResults) : mScores[i] = ClaimedScore(mResults[i])

\* The catalog found a candidate scoring 100 and served its master and its
\* main release.
ReleaseFetched(cat) ==
  /\ cat.search = "ok" /\ cat.hits /\ cat.titled /\ cat.bestMatchScore = 100
  /\ cat.master = "ok" /\ cat.release = "ok"

\* C30: when the first format of the main release is described as Promo, the
\* resolution returns fallbackToSpotify(song), whose source is spotify, though
\* the candidate scored 100.
C30_PromoFallsBack ==
  (rPc \in {"returned", "threw"} /\ ReleaseFetched(rCatalog)
     /\ rCatalog.formats = FormatsPromoFirst)
    => /\ rPc = "returned"
       /\ rResult = fallbackToSpotify(rSong)
       /\ rResult.source = "spotify"

\* A promo release with a valid release date of its own.
C30_Witness ==
  /\ rPc = "returned"
  /\ ReleaseFetched(rCatalog)
  /\ rCatalog.formats = FormatsPromoFirst
  /\ rCatalog.releasedIsString /\ ParseInt(rCatalog.released) = 1984
  /\ rSong = SongB
  /\ rResult.source = "spotify"

\* C25: what the sampler sends is a partition of its candidate list by
\* position: firstSong is the candidate at one position and remainingSongs is
\* the list of the candidates at all other positions; the candidates are at
\* most 200, each made from a complete track of the playlist, no playlist
\* position twice.
C25_SamplerPartition ==
  sampPc = "posted"
    => /\ \E k \in 1..Len(candidates) :
            /\ sentFirst = candidates[k]
            /\ sentRemaining = RemoveAt(candidates, k)
       /\ Len(sentRemaining) + 1 = Len(candidates)
       /\ Len(candidates) <= 200
       /\ \A k \in 1..Len(candidates) :
            /\ candidates[k].track \in 1..Len(playlist)
            /\ playlist[candidates[k].track].kind = "full"
            /\ \A h \in 1..Len(candidates) :
                 candidates[h].track = candidates[k].track => h = k

\* A playlist of more than 200 complete tracks: 200 candidates, the first song
\* not the first candidate.
C25_Witness ==
  /\ sampPc = "posted"
  /\ Len(playlist) > 200
  /\ Len(candidates) = 200
  /\ Len(sentRemaining) = 199
  /\ sentFirst # candidates[1]
  /\ sentFirst = candidates[200]

\* C23: the stream a client gets when it reconnects on a finished job has
\* emitted done with data complete by the time its deadline ends it.
C23_SecondStreamObservesDone ==
  (streamGen = 2 /\ doneAtReopen /\ StreamRanToDeadline) => DoneSent("complete")

\* The date of the song fallbackToSpotify was called on, and its components.
FallbackDate == rSong.currentReleaseDate
FallbackParts == Split(FallbackDate)

\* What rResult must be when the date is d.
FallbackIs(year, month, day) ==
  /\ rResult.releaseYear = year
  /\ rResult.releaseMonth = month
  /\ rResult.releaseDay = day

\* The year, the day, the source and the three dates the claim names.
FallbackFieldsAsClaimed ==
  /\ rResult.releaseYear =
       (IF FallbackParts[1] = <<>> THEN NA ELSE FallbackParts[1])
  /\ rResult.releaseDay =
       (IF Len(FallbackParts) < 3 \/ FallbackParts[3] = <<>> THEN NA
        ELSE FallbackParts[3])
  /\ rResult.source = "spotify"
  /\ rResult.sourceUrl = rSong.spotifyUrl
  /\ FallbackDate = <<>> => FallbackIs(NA, "N/A", NA)
  /\ FallbackDate = <<"1", "9", "9", "9">>
       => FallbackIs(<<"1", "9", "9", "9">>, "N/A", NA)
  /\ FallbackDate = <<"1", "9", "9", "9", "-", "0", "3">>
       => FallbackIs(<<"1", "9", "9", "9">>, "March", NA)

\* C32: fallbackToSpotify(song) gives the first component of the date as the
\* year and the third as the day, N/A when empty or missing, source spotify and
\* the song's spotifyUrl as sourceUrl; the month is the name of the second
\* component when that component is a number 1..12 and N/A otherwise.
C32_FallbackAsClaimed ==
  rPc = "returned"
    => /\ FallbackFieldsAsClaimed
       /\ rResult.releaseMonth =
            (IF Len(FallbackParts) >= 2 /\ FallbackParts[2] # <<>>
                /\ AllDigits(FallbackParts[2])
                /\ ParseInt(FallbackParts[2]) \in 1..12
             THEN MonthNames[ParseInt(FallbackParts[2])] ELSE "N/A")

\* The catalog requests of the call contain request r.
Requested(r) == \E i \in 1..Len(rRequests) : rRequests[i] = r

\* C31: the artist-only retry search is issued if and only if the primary
\* search returned zero results; when the retry returns zero results too, the
\* call returns fallbackToSpotify(song) and requests neither master nor release.
C31_RetryIffNoResults ==
  rPc \in {"returned", "threw"}
    => /\ Requested("artistSearch") <=> (rCatalog.search = "ok" /\ ~rCatalog.hits)
       /\ (rCatalog.search = "ok" /\ ~rCatalog.hits
             /\ rCatalog.artistSearch = "ok" /\ ~rCatalog.artistHits)
            => /\ rPc = "returned"
               /\ rResult = fallbackToSpotify(rSong)
               /\ rRequests = <<"search", "artistSearch">>

\* Both searches answered with no results, though the catalog holds a master.
C31_Witness ==
  /\ rPc = "returned"
  /\ rCatalog.search = "ok" /\ ~rCatalog.hits
  /\ rCatalog.artistSearch = "ok" /\ ~rCatalog.artistHits
  /\ rCatalog.master = "ok" /\ rCatalog.release = "ok" /\ rCatalog.bestMatchScore = 100
  /\ rRequests = <<"search", "artistSearch">>
  /\ rResult.source = "spotify"

\* C35: a result has its error field set if and only if an exception was
\* raised and caught while the song was resolved.
C35_ErrorIffCaught ==
  rPc = "returned" => (rResult.error # Nil <=> rCaught)

\* The outcome of a catalog request of the call.
OutcomeOf(r) ==
  CASE r = "search" -> rCatalog.search
    [] r = "artistSearch" -> rCatalog.artistSearch
    [] r = "master" -> rCatalog.master
    [] OTHER -> rCatalog.release

RequestOrder == <<"search", "artistSearch", "master", "release">>
OrderOf(r) == CHOOSE k \in 1..4 : RequestOrder[k] = r

\* C39: a call issues at most four catalog requests, the primary search first
\* and then in the order retry search, master, release; master only after a
\* candidate scored at least 80, release only after the master request
\* succeeded, and none after a request answered with a non-2xx status.
C39_RequestsInOrder ==
  rPc \in {"returned", "threw"}
    => /\ Len(rRequests) \in 1..4
       /\ rRequests[1] = "search"
       /\ \A i \in 1..Len(rRequests) : \A j \in 1..Len(rRequests) :
            i < j => OrderOf(rRequests[i]) < OrderOf(rRequests[j])
       /\ Requested("master") => rCatalog.bestMatchScore >= 80
       /\ Requested("release") => Requested("master") /\ rCatalog.master = "ok"
       /\ \A i \in 1..Len(rRequests) :
            OutcomeOf(rRequests[i]) = "status" => i = Len(rRequests)

\* All four requests are issued and the last is answered with a non-2xx status.
C39_Witness ==
  /\ rPc = "returned"
  /\ rRequests = RequestOrder
  /\ rCatalog.release = "status"
  /\ rResult = fallbackToSpotify(rSong)

\* C33: the status becomes queued only in a step of the orchestrator, and
\* once a status has been written every change of it is made by a step of the
\* worker, none by the orchestrator or the stream.
C33_WorkerOwnsLaterWrites ==
  [][/\ (jobStatus' = "queued" /\ jobStatus # "queued")
          => (postPc' # postPc /\ wPc' = wPc)
     /\ (jobStatus # Nil /\ jobStatus' # jobStatus)
          => (wPc' # wPc /\ postPc' = postPc /\ polls' = polls
                /\ delPending' = delPending)]_vars

\* C34: once the client has disconnected, the stream starts no poll, no read
\* of the results or the status is served to it, and it emits nothing.
C34_NoPollAfterDisconnect ==
  [][cancelled => (ticks' = ticks /\ polls' = polls /\ events' = events)]_vars

\* The track pages that cover a playlist of n items when each page but the
\* last brings at least one item: the fetch loop of a request needs no more,
\* plus one page that comes back short or empty.
PagesToCover(n) == n + 1

\* C40: the fetch loop ends, whatever the API answers: it has requested no more
\* pages than cover the playlist, each of at most 50 tracks.
C40_FetchLoopEnds ==
  /\ lastLimit <= 50
  /\ pagesRequested <= PagesToCover(Len(playlist))

\* C36: the cached token is returned only while more than one second of its
\* expires_in window remains; otherwise a new token is fetched before the call.
C36_ReuseOnlyBeforeFinalSecond ==
  [][tokenCall' = "reused" /\ tokenCall' # tokenCall
       => tokenExpiration - tokenNow > 1000]_vars

\* C37: within one stream lastSentIndex never decreases, and the song events
\* emitted in a step are no more than the positions lastSentIndex advances
\* over, so that no position of the results list is emitted twice, whatever
\* the order in which overlapping polls return.
C37_SentIndexMonotone ==
  [][/\ lastSentIndex' >= lastSentIndex
     /\ Len(SongsSent(events')) - Len(SongsSent(events))
          <= lastSentIndex' - lastSentIndex]_vars

\* Two polls overlap: the later one has read a result and sent it, the earlier
\* one has read the list when it was still empty and has yet to go through it.
C37_Witness ==
  /\ Len(polls) = 2
  /\ polls[1].stage = "gotResults" /\ polls[1].results = <<>>
  /\ polls[2].stage = "get" /\ polls[2].len >= 1
  /\ lastSentIndex >= 1
  /\ Len(SongsSent(events)) >= 1

\* C38: while the status key does not exist, the client is connected and no
\* read has failed, the stream emits neither done nor error and keeps polling:
\* no step clears the interval.
C38_KeepsPollingWithoutStatus ==
  [][(kvStatus = Nil /\ kvStatus' = Nil /\ sPhase = "open" /\ ~cancelled
        /\ \A i \in 1..Len(polls) : polls[i].stage # "failed" /\ polls[i].status = Nil)
       => /\ intervalOn => intervalOn'
          /\ DoneCount(events') = DoneCount(events)
          /\ ErrorCount(events') = ErrorCount(events)]_vars

====
